---------------------------- MODULE Spec2Model ----------------------------
(***************************************************************************)
(* Model of rashifal_bot.py: one run of main() -- the credential check,    *)
(* the platform-client setup with its v2 -> v1.1 fallback, the bounded     *)
(* generation retry loop, the text normalizer clean_ai_text and the        *)
(* publisher post_tweet.                                                   *)
(*                                                                         *)
(* Text is a sequence of characters.  A printable ASCII character, a tab,  *)
(* a newline, a form feed or a carriage return is the one-character string *)
(* itself; any other character (and the grave accent) is the string naming *)
(* its code point ("U+2014" is the em dash, "U+1E63" is s-with-dot-below,  *)
(* "U+000B" the vertical tab).  The character classes and case mappings    *)
(* are those of Python 3.11 (Unicode 14.0).                                *)
(***************************************************************************)
EXTENDS Integers, Sequences, FiniteSets, TLC

VARIABLES
    env,             \* os.environ.get(var) for the required variables: None or <<value>>
    stdout_errors,   \* sys.stdout.errors, the error handler of the UTF-8 stdout
    pc,              \* position of the run inside main()
    twitter_api_v1,  \* self.twitter_api_v1 is set (not None)
    use_v1_api,      \* self.use_v1_api
    sign,            \* index of the selected sign in zodiac_signs, 0 before selection
    retry_count,     \* retry_count of generate_rashifal
    completion,      \* the local `completion` of generate_rashifal
    last_error,      \* text of the last exception raised by the generation service
    rashifal,        \* the value generate_rashifal returned to main()
    calls,           \* the network calls made so far, in order
    sleeps,          \* number of time.sleep(60) calls made so far
    submitted,       \* the texts handed to the platform's submit operation
    published,       \* the texts the platform accepted
    failure,         \* why the run failed, "none" while it has not
    exit_code        \* <<>> while main() runs, then <<the exit status of the process>>

vars == <<env, stdout_errors, pc, twitter_api_v1, use_v1_api, sign, retry_count, completion,
          last_error, rashifal, calls, sleeps, submitted, published, failure,
          exit_code>>

----------------------------------------------------------------------------
(* Characters and Python's str primitives                                  *)

\* an ASCII string literal as a sequence of characters
Chars(s) == [i \in 1..Len(s) |-> SubSeq(s, i, i)]

Min(S) == CHOOSE m \in S : \A n \in S : m <= n

Max(S) == CHOOSE m \in S : \A n \in S : m >= n

\* the element of a one-element set
Only(S) == CHOOSE x \in S : TRUE

EmDash == "U+2014"

EnDash == "U+2013"

\* the printable ASCII characters in code-point order, from the space (32) to
\* the tilde (126); the grave accent (96) is written as its code point
Ascii ==
    Chars(" !\"#$%&'()*+,-./0123456789:;<=>?@ABCDEFGHIJKLMNOPQRSTUVWXYZ[\\]^_")
    \o <<"U+0060">> \o Chars("abcdefghijklmnopqrstuvwxyz{|}~")

HexDigits == "0123456789ABCDEF"

\* the number a string of hexadecimal digits denotes
HexValue(s) ==
    LET digit(k) == (CHOOSE h \in 1..Len(HexDigits) :
                         SubSeq(HexDigits, h, h) = SubSeq(s, k, k)) - 1
        value[k \in 0..Len(s)] == IF k = 0 THEN 0 ELSE 16 * value[k - 1] + digit(k)
    IN  value[Len(s)]

\* ord(c): the code point of a character
CodePoint(c) ==
    IF c = "\t" THEN 9
    ELSE IF c = "\n" THEN 10
    ELSE IF c = "\f" THEN 12
    ELSE IF c = "\r" THEN 13
    ELSE IF \E k \in DOMAIN Ascii : Ascii[k] = c
    THEN 31 + (CHOOSE k \in DOMAIN Ascii : Ascii[k] = c)
    ELSE HexValue(SubSeq(c, 3, Len(c)))

RECURSIVE Concat(_)
\* ''.join(parts)
Concat(parts) ==
    IF parts = <<>> THEN <<>>
    ELSE IF Len(parts) = 1 THEN parts[1]
    ELSE LET m == Len(parts) \div 2
         IN  Concat(SubSeq(parts, 1, m)) \o Concat(SubSeq(parts, m + 1, Len(parts)))

\* The data below are strings of fixed-width records.  A range of code
\* points is "first-last ", both in five hexadecimal digits.  A case mapping
\* is four fields of eight characters, each a character padded with spaces:
\* the character mapped and the one to three characters it maps to.

\* the ranges <<first, last>> of the data
Ranges(data) ==
    { <<HexValue(SubSeq(r, 1, 5)), HexValue(SubSeq(r, 7, 11))>> :
          r \in {SubSeq(data, 12 * k - 11, 12 * k) : k \in 1..(Len(data) \div 12)} }

\* the k-th field of a case-mapping record, without its padding
Field(r, k) ==
    SubSeq(r, 8 * k - 7, Min({n \in (8 * k - 7)..(8 * k) : SubSeq(r, n, n) = " "}) - 1)

\* the pairs <<character, characters it maps to>> of the data
Pairs(data) ==
    { << Field(r, 1),
         IF Field(r, 3) = "" THEN <<Field(r, 2)>>
         ELSE IF Field(r, 4) = "" THEN <<Field(r, 2), Field(r, 3)>>
         ELSE <<Field(r, 2), Field(r, 3), Field(r, 4)>> >> :
          r \in {SubSeq(data, 32 * k - 31, 32 * k) : k \in 1..(Len(data) \div 32)} }

\* the function that maps the first component of each pair of P to the second
Table(P) ==
    Only({ [c \in {p[1] : p \in S} |-> (CHOOSE p \in S : p[1] = c)[2]] : S \in {P} })

\* the code point of c lies in one of the ranges of R
InRanges(c, R) == \E n \in {CodePoint(c)} : \E r \in R : r[1] <= n /\ n <= r[2]

\* str.strip() / str.split() / regex \s: the characters Python holds for
\* whitespace (str.isspace)
Whitespace ==
    {
    "\t", "\n", "U+000B", "\f", "\r", "U+001C", "U+001D", "U+001E",
    "U+001F", " ", "U+0085", "U+00A0", "U+1680", "U+2000", "U+2001", "U+2002",
    "U+2003", "U+2004", "U+2005", "U+2006", "U+2007", "U+2008", "U+2009", "U+200A",
    "U+2028", "U+2029", "U+202F", "U+205F", "U+3000"
    }

\* regex \w on str patterns: the code points of the alphanumeric characters
\* (str.isalnum) and the underscore, as "first-last " records of inclusive
\* ranges in code-point order
WordData ==
    "00030-00039 00041-0005A 0005F-0005F 00061-0007A 000AA-000AA 000B2-000B3 000B5-000B5 000B9-000BA 000BC-000BE 000C0-000D6 000D8-000F6 000F8-002C1 002C6-002D1 002E0-002E4 002EC-002EC 002EE-002EE 00370-00374 00376-00377 0037A-0037D 0037F-0037F 00386-00386 00388-0038A 0038C-0038C 0038E-003A1 003A3-003F5 003F7-00481 0048A-0052F 00531-00556 00559-00559 00560-00588 005D0-005EA 005EF-005F2 00620-0064A 00660-00669 0066E-0066F 00671-006D3 006D5-006D5 006E5-006E6 006EE-006FC 006FF-006FF 00710-00710 00712-0072F 0074D-007A5 007B1-007B1 007C0-007EA 007F4-007F5 007FA-007FA 00800-00815 0081A-0081A 00824-00824 00828-00828 00840-00858 00860-0086A 00870-00887 00889-0088E 008A0-008C9 00904-00939 0093D-0093D 00950-00950 00958-00961 00966-0096F 00971-00980 00985-0098C 0098F-00990 00993-009A8 009AA-009B0 009B2-009B2 009B6-009B9 009BD-009BD 009CE-009CE 009DC-009DD 009DF-009E1 009E6-009F1 009F4-009F9 009FC-009FC 00A05-00A0A 00A0F-00A10 00A13-00A28 00A2A-00A30 00A32-00A33 00A35-00A36 00A38-00A39 00A59-00A5C 00A5E-00A5E 00A66-00A6F 00A72-00A74 00A85-00A8D 00A8F-00A91 00A93-00AA8 00AAA-00AB0 00AB2-00AB3 00AB5-00AB9 00ABD-00ABD 00AD0-00AD0 00AE0-00AE1 00AE6-00AEF 00AF9-00AF9 00B05-00B0C 00B0F-00B10 00B13-00B28 00B2A-00B30 00B32-00B33 00B35-00B39 00B3D-00B3D 00B5C-00B5D 00B5F-00B61 00B66-00B6F 00B71-00B77 00B83-00B83 00B85-00B8A 00B8E-00B90 00B92-00B95 00B99-00B9A 00B9C-00B9C 00B9E-00B9F 00BA3-00BA4 00BA8-00BAA 00BAE-00BB9 00BD0-00BD0 00BE6-00BF2 00C05-00C0C 00C0E-00C10 00C12-00C28 00C2A-00C39 00C3D-00C3D 00C58-00C5A 00C5D-00C5D 00C60-00C61 00C66-00C6F 00C78-00C7E 00C80-00C80 00C85-00C8C 00C8E-00C90 00C92-00CA8 00CAA-00CB3 00CB5-00CB9 00CBD-00CBD 00CDD-00CDE 00CE0-00CE1 00CE6-00CEF 00CF1-00CF2 00D04-00D0C 00D0E-00D10 00D12-00D3A 00D3D-00D3D 00D4E-00D4E 00D54-00D56 00D58-00D61 00D66-00D78 00D7A-00D7F 00D85-00D96 00D9A-00DB1 00DB3-00DBB 00DBD-00DBD 00DC0-00DC6 00DE6-00DEF 00E01-00E30 00E32-00E33 00E40-00E46 00E50-00E59 00E81-00E82 00E84-00E84 00E86-00E8A 00E8C-00EA3 00EA5-00EA5 00EA7-00EB0 00EB2-00EB3 00EBD-00EBD 00EC0-00EC4 00EC6-00EC6 00ED0-00ED9 00EDC-00EDF 00F00-00F00 00F20-00F33 00F40-00F47 00F49-00F6C 00F88-00F8C 01000-0102A 0103F-01049 01050-01055 0105A-0105D 01061-01061 01065-01066 0106E-01070 01075-01081 0108E-0108E 01090-01099 010A0-010C5 010C7-010C7 010CD-010CD 010D0-010FA 010FC-01248 0124A-0124D 01250-01256 01258-01258 0125A-0125D 01260-01288 0128A-0128D 01290-012B0 012B2-012B5 012B8-012BE 012C0-012C0 012C2-012C5 012C8-012D6 012D8-01310 01312-01315 01318-0135A 01369-0137C 01380-0138F 013A0-013F5 013F8-013FD 01401-0166C 0166F-0167F 01681-0169A 016A0-016EA 016EE-016F8 01700-01711 0171F-01731 01740-01751 01760-0176C 0176E-01770 01780-017B3 017D7-017D7 017DC-017DC 017E0-017E9 017F0-017F9 01810-01819 01820-01878 01880-01884 01887-018A8 018AA-018AA 018B0-018F5 01900-0191E 01946-0196D 01970-01974 01980-019AB 019B0-019C9 019D0-019DA 01A00-01A16 01A20-01A54 01A80-01A89 01A90-01A99 01AA7-01AA7 01B05-01B33 01B45-01B4C 01B50-01B59 01B83-01BA0 01BAE-01BE5 01C00-01C23 01C40-01C49 01C4D-01C7D 01C80-01C88 01C90-01CBA 01CBD-01CBF 01CE9-01CEC 01CEE-01CF3 01CF5-01CF6 01CFA-01CFA 01D00-01DBF 01E00-01F15 01F18-01F1D 01F20-01F45 01F48-01F4D 01F50-01F57 01F59-01F59 01F5B-01F5B 01F5D-01F5D 01F5F-01F7D 01F80-01FB4 01FB6-01FBC 01FBE-01FBE 01FC2-01FC4 01FC6-01FCC 01FD0-01FD3 01FD6-01FDB 01FE0-01FEC 01FF2-01FF4 01FF6-01FFC 02070-02071 02074-02079 0207F-02089 02090-0209C 02102-02102 02107-02107 0210A-02113 02115-02115 02119-0211D 02124-02124 02126-02126 02128-02128 0212A-0212D 0212F-02139 0213C-0213F 02145-02149 0214E-0214E 02150-02189 02460-0249B 024EA-024FF 02776-02793 02C00-02CE4 02CEB-02CEE 02CF2-02CF3 02CFD-02CFD 02D00-02D25 02D27-02D27 02D2D-02D2D 02D30-02D67 02D6F-02D6F 02D80-02D96 02DA0-02DA6 02DA8-02DAE 02DB0-02DB6 02DB8-02DBE 02DC0-02DC6 02DC8-02DCE 02DD0-02DD6 02DD8-02DDE 02E2F-02E2F 03005-03007 03021-03029 03031-03035 03038-0303C 03041-03096 0309D-0309F 030A1-030FA 030FC-030FF 03105-0312F 03131-0318E 03192-03195 031A0-031BF 031F0-031FF 03220-03229 03248-0324F 03251-0325F 03280-03289 032B1-032BF 03400-04DBF 04E00-0A48C 0A4D0-0A4FD 0A500-0A60C 0A610-0A62B 0A640-0A66E 0A67F-0A69D 0A6A0-0A6EF 0A717-0A71F 0A722-0A788 0A78B-0A7CA 0A7D0-0A7D1 0A7D3-0A7D3 0A7D5-0A7D9 0A7F2-0A801 0A803-0A805 0A807-0A80A 0A80C-0A822 0A830-0A835 0A840-0A873 0A882-0A8B3 0A8D0-0A8D9 0A8F2-0A8F7 0A8FB-0A8FB 0A8FD-0A8FE 0A900-0A925 0A930-0A946 0A960-0A97C 0A984-0A9B2 0A9CF-0A9D9 0A9E0-0A9E4 0A9E6-0A9FE 0AA00-0AA28 0AA40-0AA42 0AA44-0AA4B 0AA50-0AA59 0AA60-0AA76 0AA7A-0AA7A 0AA7E-0AAAF 0AAB1-0AAB1 0AAB5-0AAB6 0AAB9-0AABD 0AAC0-0AAC0 0AAC2-0AAC2 0AADB-0AADD 0AAE0-0AAEA 0AAF2-0AAF4 0AB01-0AB06 0AB09-0AB0E 0AB11-0AB16 0AB20-0AB26 0AB28-0AB2E 0AB30-0AB5A 0AB5C-0AB69 0AB70-0ABE2 0ABF0-0ABF9 0AC00-0D7A3 0D7B0-0D7C6 0D7CB-0D7FB 0F900-0FA6D 0FA70-0FAD9 0FB00-0FB06 0FB13-0FB17 0FB1D-0FB1D 0FB1F-0FB28 0FB2A-0FB36 0FB38-0FB3C 0FB3E-0FB3E 0FB40-0FB41 0FB43-0FB44 0FB46-0FBB1 0FBD3-0FD3D 0FD50-0FD8F 0FD92-0FDC7 0FDF0-0FDFB 0FE70-0FE74 0FE76-0FEFC 0FF10-0FF19 0FF21-0FF3A 0FF41-0FF5A 0FF66-0FFBE 0FFC2-0FFC7 0FFCA-0FFCF 0FFD2-0FFD7 0FFDA-0FFDC 10000-1000B 1000D-10026 10028-1003A 1003C-1003D 1003F-1004D 10050-1005D 10080-100FA 10107-10133 10140-10178 1018A-1018B 10280-1029C 102A0-102D0 102E1-102FB 10300-10323 1032D-1034A 10350-10375 10380-1039D 103A0-103C3 103C8-103CF 103D1-103D5 10400-1049D 104A0-104A9 104B0-104D3 104D8-104FB 10500-10527 10530-10563 10570-1057A 1057C-1058A 1058C-10592 10594-10595 10597-105A1 105A3-105B1 105B3-105B9 105BB-105BC 10600-10736 10740-10755 10760-10767 10780-10785 10787-107B0 107B2-107BA 10800-10805 10808-10808 1080A-10835 10837-10838 1083C-1083C 1083F-10855 10858-10876 10879-1089E 108A7-108AF 108E0-108F2 108F4-108F5 108FB-1091B 10920-10939 10980-109B7 109BC-109CF 109D2-10A00 10A10-10A13 10A15-10A17 10A19-10A35 10A40-10A48 10A60-10A7E 10A80-10A9F 10AC0-10AC7 10AC9-10AE4 10AEB-10AEF 10B00-10B35 10B40-10B55 10B58-10B72 10B78-10B91 10BA9-10BAF 10C00-10C48 10C80-10CB2 10CC0-10CF2 10CFA-10D23 10D30-10D39 10E60-10E7E 10E80-10EA9 10EB0-10EB1 10F00-10F27 10F30-10F45 10F51-10F54 10F70-10F81 10FB0-10FCB 10FE0-10FF6 11003-11037 11052-1106F 11071-11072 11075-11075 11083-110AF 110D0-110E8 110F0-110F9 11103-11126 11136-1113F 11144-11144 11147-11147 11150-11172 11176-11176 11183-111B2 111C1-111C4 111D0-111DA 111DC-111DC 111E1-111F4 11200-11211 11213-1122B 11280-11286 11288-11288 1128A-1128D 1128F-1129D 1129F-112A8 112B0-112DE 112F0-112F9 11305-1130C 1130F-11310 11313-11328 1132A-11330 11332-11333 11335-11339 1133D-1133D 11350-11350 1135D-11361 11400-11434 11447-1144A 11450-11459 1145F-11461 11480-114AF 114C4-114C5 114C7-114C7 114D0-114D9 11580-115AE 115D8-115DB 11600-1162F 11644-11644 11650-11659 11680-116AA 116B8-116B8 116C0-116C9 11700-1171A 11730-1173B 11740-11746 11800-1182B 118A0-118F2 118FF-11906 11909-11909 1190C-11913 11915-11916 11918-1192F 1193F-1193F 11941-11941 11950-11959 119A0-119A7 119AA-119D0 119E1-119E1 119E3-119E3 11A00-11A00 11A0B-11A32 11A3A-11A3A 11A50-11A50 11A5C-11A89 11A9D-11A9D 11AB0-11AF8 11C00-11C08 11C0A-11C2E 11C40-11C40 11C50-11C6C 11C72-11C8F 11D00-11D06 11D08-11D09 11D0B-11D30 11D46-11D46 11D50-11D59 11D60-11D65 11D67-11D68 11D6A-11D89 11D98-11D98 11DA0-11DA9 11EE0-11EF2 11FB0-11FB0 11FC0-11FD4 12000-12399 12400-1246E 12480-12543 12F90-12FF0 13000-1342E 14400-14646 16800-16A38 16A40-16A5E 16A60-16A69 16A70-16ABE 16AC0-16AC9 16AD0-16AED 16B00-16B2F 16B40-16B43 16B50-16B59 16B5B-16B61 16B63-16B77 16B7D-16B8F 16E40-16E96 16F00-16F4A 16F50-16F50 16F93-16F9F 16FE0-16FE1 16FE3-16FE3 17000-187F7 18800-18CD5 18D00-18D08 1AFF0-1AFF3 1AFF5-1AFFB 1AFFD-1AFFE 1B000-1B122 1B150-1B152 1B164-1B167 1B170-1B2FB 1BC00-1BC6A 1BC70-1BC7C 1BC80-1BC88 1BC90-1BC99 1D2E0-1D2F3 1D360-1D378 1D400-1D454 1D456-1D49C 1D49E-1D49F 1D4A2-1D4A2 1D4A5-1D4A6 1D4A9-1D4AC 1D4AE-1D4B9 1D4BB-1D4BB 1D4BD-1D4C3 1D4C5-1D505 1D507-1D50A 1D50D-1D514 1D516-1D51C 1D51E-1D539 1D53B-1D53E 1D540-1D544 1D546-1D546 1D54A-1D550 1D552-1D6A5 1D6A8-1D6C0 1D6C2-1D6DA 1D6DC-1D6FA 1D6FC-1D714 1D716-1D734 1D736-1D74E 1D750-1D76E 1D770-1D788 1D78A-1D7A8 1D7AA-1D7C2 1D7C4-1D7CB 1D7CE-1D7FF 1DF00-1DF1E 1E100-1E12C 1E137-1E13D 1E140-1E149 1E14E-1E14E 1E290-1E2AD 1E2C0-1E2EB 1E2F0-1E2F9 1E7E0-1E7E6 1E7E8-1E7EB 1E7ED-1E7EE 1E7F0-1E7FE 1E800-1E8C4 1E8C7-1E8CF 1E900-1E943 1E94B-1E94B 1E950-1E959 1EC71-1ECAB 1ECAD-1ECAF 1ECB1-1ECB4 1ED01-1ED2D 1ED2F-1ED3D 1EE00-1EE03 1EE05-1EE1F 1EE21-1EE22 1EE24-1EE24 1EE27-1EE27 1EE29-1EE32 1EE34-1EE37 1EE39-1EE39 1EE3B-1EE3B 1EE42-1EE42 1EE47-1EE47 1EE49-1EE49 1EE4B-1EE4B 1EE4D-1EE4F 1EE51-1EE52 1EE54-1EE54 1EE57-1EE57 1EE59-1EE59 1EE5B-1EE5B 1EE5D-1EE5D 1EE5F-1EE5F 1EE61-1EE62 1EE64-1EE64 1EE67-1EE6A 1EE6C-1EE72 1EE74-1EE77 1EE79-1EE7C 1EE7E-1EE7E 1EE80-1EE89 1EE8B-1EE9B 1EEA1-1EEA3 1EEA5-1EEA9 1EEAB-1EEBB 1F100-1F10C 1FBF0-1FBF9 20000-2A6DF 2A700-2B738 2B740-2B81D 2B820-2CEA1 2CEB0-2EBE0 2F800-2FA1D 30000-3134A "

\* the cased characters that are not case-ignorable, as inclusive ranges
CasedData ==
    "00041-0005A 00061-0007A 000AA-000AA 000B5-000B5 000BA-000BA 000C0-000D6 000D8-000F6 000F8-001BA 001BC-001BF 001C4-00293 00295-002AF 00370-00373 00376-00377 0037B-0037D 0037F-0037F 00386-00386 00388-0038A 0038C-0038C 0038E-003A1 003A3-003F5 003F7-00481 0048A-0052F 00531-00556 00560-00588 010A0-010C5 010C7-010C7 010CD-010CD 010D0-010FA 010FD-010FF 013A0-013F5 013F8-013FD 01C80-01C88 01C90-01CBA 01CBD-01CBF 01D00-01D2B 01D6B-01D77 01D79-01D9A 01E00-01F15 01F18-01F1D 01F20-01F45 01F48-01F4D 01F50-01F57 01F59-01F59 01F5B-01F5B 01F5D-01F5D 01F5F-01F7D 01F80-01FB4 01FB6-01FBC 01FBE-01FBE 01FC2-01FC4 01FC6-01FCC 01FD0-01FD3 01FD6-01FDB 01FE0-01FEC 01FF2-01FF4 01FF6-01FFC 02102-02102 02107-02107 0210A-02113 02115-02115 02119-0211D 02124-02124 02126-02126 02128-02128 0212A-0212D 0212F-02134 02139-02139 0213C-0213F 02145-02149 0214E-0214E 02160-0217F 02183-02184 024B6-024E9 02C00-02C7B 02C7E-02CE4 02CEB-02CEE 02CF2-02CF3 02D00-02D25 02D27-02D27 02D2D-02D2D 0A640-0A66D 0A680-0A69B 0A722-0A76F 0A771-0A787 0A78B-0A78E 0A790-0A7CA 0A7D0-0A7D1 0A7D3-0A7D3 0A7D5-0A7D9 0A7F5-0A7F6 0A7FA-0A7FA 0AB30-0AB5A 0AB60-0AB68 0AB70-0ABBF 0FB00-0FB06 0FB13-0FB17 0FF21-0FF3A 0FF41-0FF5A 10400-1044F 104B0-104D3 104D8-104FB 10570-1057A 1057C-1058A 1058C-10592 10594-10595 10597-105A1 105A3-105B1 105B3-105B9 105BB-105BC 10C80-10CB2 10CC0-10CF2 118A0-118DF 16E40-16E7F 1D400-1D454 1D456-1D49C 1D49E-1D49F 1D4A2-1D4A2 1D4A5-1D4A6 1D4A9-1D4AC 1D4AE-1D4B9 1D4BB-1D4BB 1D4BD-1D4C3 1D4C5-1D505 1D507-1D50A 1D50D-1D514 1D516-1D51C 1D51E-1D539 1D53B-1D53E 1D540-1D544 1D546-1D546 1D54A-1D550 1D552-1D6A5 1D6A8-1D6C0 1D6C2-1D6DA 1D6DC-1D6FA 1D6FC-1D714 1D716-1D734 1D736-1D74E 1D750-1D76E 1D770-1D788 1D78A-1D7A8 1D7AA-1D7C2 1D7C4-1D7CB 1DF00-1DF09 1DF0B-1DF1E 1E900-1E943 1F130-1F149 1F150-1F169 1F170-1F189 "

\* the case-ignorable characters, as inclusive ranges
CaseIgnorableData ==
    "00027-00027 0002E-0002E 0003A-0003A 0005E-0005E 00060-00060 000A8-000A8 000AD-000AD 000AF-000AF 000B4-000B4 000B7-000B8 002B0-0036F 00374-00375 0037A-0037A 00384-00385 00387-00387 00483-00489 00559-00559 0055F-0055F 00591-005BD 005BF-005BF 005C1-005C2 005C4-005C5 005C7-005C7 005F4-005F4 00600-00605 00610-0061A 0061C-0061C 00640-00640 0064B-0065F 00670-00670 006D6-006DD 006DF-006E8 006EA-006ED 0070F-0070F 00711-00711 00730-0074A 007A6-007B0 007EB-007F5 007FA-007FA 007FD-007FD 00816-0082D 00859-0085B 00888-00888 00890-00891 00898-0089F 008C9-00902 0093A-0093A 0093C-0093C 00941-00948 0094D-0094D 00951-00957 00962-00963 00971-00971 00981-00981 009BC-009BC 009C1-009C4 009CD-009CD 009E2-009E3 009FE-009FE 00A01-00A02 00A3C-00A3C 00A41-00A42 00A47-00A48 00A4B-00A4D 00A51-00A51 00A70-00A71 00A75-00A75 00A81-00A82 00ABC-00ABC 00AC1-00AC5 00AC7-00AC8 00ACD-00ACD 00AE2-00AE3 00AFA-00AFF 00B01-00B01 00B3C-00B3C 00B3F-00B3F 00B41-00B44 00B4D-00B4D 00B55-00B56 00B62-00B63 00B82-00B82 00BC0-00BC0 00BCD-00BCD 00C00-00C00 00C04-00C04 00C3C-00C3C 00C3E-00C40 00C46-00C48 00C4A-00C4D 00C55-00C56 00C62-00C63 00C81-00C81 00CBC-00CBC 00CBF-00CBF 00CC6-00CC6 00CCC-00CCD 00CE2-00CE3 00D00-00D01 00D3B-00D3C 00D41-00D44 00D4D-00D4D 00D62-00D63 00D81-00D81 00DCA-00DCA 00DD2-00DD4 00DD6-00DD6 00E31-00E31 00E34-00E3A 00E46-00E4E 00EB1-00EB1 00EB4-00EBC 00EC6-00EC6 00EC8-00ECD 00F18-00F19 00F35-00F35 00F37-00F37 00F39-00F39 00F71-00F7E 00F80-00F84 00F86-00F87 00F8D-00F97 00F99-00FBC 00FC6-00FC6 0102D-01030 01032-01037 01039-0103A 0103D-0103E 01058-01059 0105E-01060 01071-01074 01082-01082 01085-01086 0108D-0108D 0109D-0109D 010FC-010FC 0135D-0135F 01712-01714 01732-01733 01752-01753 01772-01773 017B4-017B5 017B7-017BD 017C6-017C6 017C9-017D3 017D7-017D7 017DD-017DD 0180B-0180F 01843-01843 01885-01886 018A9-018A9 01920-01922 01927-01928 01932-01932 01939-0193B 01A17-01A18 01A1B-01A1B 01A56-01A56 01A58-01A5E 01A60-01A60 01A62-01A62 01A65-01A6C 01A73-01A7C 01A7F-01A7F 01AA7-01AA7 01AB0-01ACE 01B00-01B03 01B34-01B34 01B36-01B3A 01B3C-01B3C 01B42-01B42 01B6B-01B73 01B80-01B81 01BA2-01BA5 01BA8-01BA9 01BAB-01BAD 01BE6-01BE6 01BE8-01BE9 01BED-01BED 01BEF-01BF1 01C2C-01C33 01C36-01C37 01C78-01C7D 01CD0-01CD2 01CD4-01CE0 01CE2-01CE8 01CED-01CED 01CF4-01CF4 01CF8-01CF9 01D2C-01D6A 01D78-01D78 01D9B-01DFF 01FBD-01FBD 01FBF-01FC1 01FCD-01FCF 01FDD-01FDF 01FED-01FEF 01FFD-01FFE 0200B-0200F 02018-02019 02024-02024 02027-02027 0202A-0202E 02060-02064 02066-0206F 02071-02071 0207F-0207F 02090-0209C 020D0-020F0 02C7C-02C7D 02CEF-02CF1 02D6F-02D6F 02D7F-02D7F 02DE0-02DFF 02E2F-02E2F 03005-03005 0302A-0302D 03031-03035 0303B-0303B 03099-0309E 030FC-030FE 0A015-0A015 0A4F8-0A4FD 0A60C-0A60C 0A66F-0A672 0A674-0A67D 0A67F-0A67F 0A69C-0A69F 0A6F0-0A6F1 0A700-0A721 0A770-0A770 0A788-0A78A 0A7F2-0A7F4 0A7F8-0A7F9 0A802-0A802 0A806-0A806 0A80B-0A80B 0A825-0A826 0A82C-0A82C 0A8C4-0A8C5 0A8E0-0A8F1 0A8FF-0A8FF 0A926-0A92D 0A947-0A951 0A980-0A982 0A9B3-0A9B3 0A9B6-0A9B9 0A9BC-0A9BD 0A9CF-0A9CF 0A9E5-0A9E6 0AA29-0AA2E 0AA31-0AA32 0AA35-0AA36 0AA43-0AA43 0AA4C-0AA4C 0AA70-0AA70 0AA7C-0AA7C 0AAB0-0AAB0 0AAB2-0AAB4 0AAB7-0AAB8 0AABE-0AABF 0AAC1-0AAC1 0AADD-0AADD 0AAEC-0AAED 0AAF3-0AAF4 0AAF6-0AAF6 0AB5B-0AB5F 0AB69-0AB6B 0ABE5-0ABE5 0ABE8-0ABE8 0ABED-0ABED 0FB1E-0FB1E 0FBB2-0FBC2 0FE00-0FE0F 0FE13-0FE13 0FE20-0FE2F 0FE52-0FE52 0FE55-0FE55 0FEFF-0FEFF 0FF07-0FF07 0FF0E-0FF0E 0FF1A-0FF1A 0FF3E-0FF3E 0FF40-0FF40 0FF70-0FF70 0FF9E-0FF9F 0FFE3-0FFE3 0FFF9-0FFFB 101FD-101FD 102E0-102E0 10376-1037A 10780-10785 10787-107B0 107B2-107BA 10A01-10A03 10A05-10A06 10A0C-10A0F 10A38-10A3A 10A3F-10A3F 10AE5-10AE6 10D24-10D27 10EAB-10EAC 10F46-10F50 10F82-10F85 11001-11001 11038-11046 11070-11070 11073-11074 1107F-11081 110B3-110B6 110B9-110BA 110BD-110BD 110C2-110C2 110CD-110CD 11100-11102 11127-1112B 1112D-11134 11173-11173 11180-11181 111B6-111BE 111C9-111CC 111CF-111CF 1122F-11231 11234-11234 11236-11237 1123E-1123E 112DF-112DF 112E3-112EA 11300-11301 1133B-1133C 11340-11340 11366-1136C 11370-11374 11438-1143F 11442-11444 11446-11446 1145E-1145E 114B3-114B8 114BA-114BA 114BF-114C0 114C2-114C3 115B2-115B5 115BC-115BD 115BF-115C0 115DC-115DD 11633-1163A 1163D-1163D 1163F-11640 116AB-116AB 116AD-116AD 116B0-116B5 116B7-116B7 1171D-1171F 11722-11725 11727-1172B 1182F-11837 11839-1183A 1193B-1193C 1193E-1193E 11943-11943 119D4-119D7 119DA-119DB 119E0-119E0 11A01-11A0A 11A33-11A38 11A3B-11A3E 11A47-11A47 11A51-11A56 11A59-11A5B 11A8A-11A96 11A98-11A99 11C30-11C36 11C38-11C3D 11C3F-11C3F 11C92-11CA7 11CAA-11CB0 11CB2-11CB3 11CB5-11CB6 11D31-11D36 11D3A-11D3A 11D3C-11D3D 11D3F-11D45 11D47-11D47 11D90-11D91 11D95-11D95 11D97-11D97 11EF3-11EF4 13430-13438 16AF0-16AF4 16B30-16B36 16B40-16B43 16F4F-16F4F 16F8F-16F9F 16FE0-16FE1 16FE3-16FE4 1AFF0-1AFF3 1AFF5-1AFFB 1AFFD-1AFFE 1BC9D-1BC9E 1BCA0-1BCA3 1CF00-1CF2D 1CF30-1CF46 1D167-1D169 1D173-1D182 1D185-1D18B 1D1AA-1D1AD 1D242-1D244 1DA00-1DA36 1DA3B-1DA6C 1DA75-1DA75 1DA84-1DA84 1DA9B-1DA9F 1DAA1-1DAAF 1E000-1E006 1E008-1E018 1E01B-1E021 1E023-1E024 1E026-1E02A 1E130-1E13D 1E2AE-1E2AE 1E2EC-1E2EF 1E8D0-1E8D6 1E944-1E94B 1F3FB-1F3FF E0001-E0001 E0020-E007F E0100-E01EF "

\* str.lower() of one character, for the characters it changes, as records
\* of four fields: the character and the one to three characters it gives
LowerData ==
    "A       a                       B       b                       C       c                       D       d                       E       e                       F       f                       G       g                       H       h                       I       i                       J       j                       K       k                       L       l                       M       m                       N       n                       O       o                       P       p                       Q       q                       R       r                       S       s                       T       t                       U       u                       V       v                       W       w                       X       x                       Y       y                       Z       z                       U+00C0  U+00E0                  U+00C1  U+00E1                  U+00C2  U+00E2                  U+00C3  U+00E3                  U+00C4  U+00E4                  U+00C5  U+00E5                  U+00C6  U+00E6                  U+00C7  U+00E7                  U+00C8  U+00E8                  U+00C9  U+00E9                  U+00CA  U+00EA                  U+00CB  U+00EB                  U+00CC  U+00EC                  U+00CD  U+00ED                  U+00CE  U+00EE                  U+00CF  U+00EF                  U+00D0  U+00F0                  U+00D1  U+00F1                  U+00D2  U+00F2                  U+00D3  U+00F3                  U+00D4  U+00F4                  U+00D5  U+00F5                  U+00D6  U+00F6                  U+00D8  U+00F8                  U+00D9  U+00F9                  U+00DA  U+00FA                  U+00DB  U+00FB                  U+00DC  U+00FC                  U+00DD  U+00FD                  U+00DE  U+00FE                  U+0100  U+0101                  U+0102  U+0103                  U+0104  U+0105                  U+0106  U+0107                  U+0108  U+0109                  U+010A  U+010B                  U+010C  U+010D                  U+010E  U+010F                  U+0110  U+0111                  U+0112  U+0113                  U+0114  U+0115                  U+0116  U+0117                  U+0118  U+0119                  U+011A  U+011B                  U+011C  U+011D                  U+011E  U+011F                  U+0120  U+0121                  U+0122  U+0123                  U+0124  U+0125                  U+0126  U+0127                  U+0128  U+0129                  U+012A  U+012B                  U+012C  U+012D                  U+012E  U+012F                  U+0130  i       U+0307          U+0132  U+0133                  U+0134  U+0135                  U+0136  U+0137                  U+0139  U+013A                  U+013B  U+013C                  U+013D  U+013E                  U+013F  U+0140                  U+0141  U+0142                  U+0143  U+0144                  U+0145  U+0146                  U+0147  U+0148                  U+014A  U+014B                  U+014C  U+014D                  U+014E  U+014F                  U+0150  U+0151                  U+0152  U+0153                  U+0154  U+0155                  U+0156  U+0157                  U+0158  U+0159                  U+015A  U+015B                  U+015C  U+015D                  U+015E  U+015F                  U+0160  U+0161                  U+0162  U+0163                  U+0164  U+0165                  U+0166  U+0167                  U+0168  U+0169                  U+016A  U+016B                  U+016C  U+016D                  U+016E  U+016F                  U+0170  U+0171                  U+0172  U+0173                  U+0174  U+0175                  U+0176  U+0177                  U+0178  U+00FF                  U+0179  U+017A                  U+017B  U+017C                  U+017D  U+017E                  U+0181  U+0253                  U+0182  U+0183                  U+0184  U+0185                  U+0186  U+0254                  U+0187  U+0188                  U+0189  U+0256                  U+018A  U+0257                  U+018B  U+018C                  U+018E  U+01DD                  U+018F  U+0259                  U+0190  U+025B                  U+0191  U+0192                  U+0193  U+0260                  U+0194  U+0263                  U+0196  U+0269                  U+0197  U+0268                  U+0198  U+0199                  U+019C  U+026F                  U+019D  U+0272                  U+019F  U+0275                  U+01A0  U+01A1                  U+01A2  U+01A3                  U+01A4  U+01A5                  U+01A6  U+0280                  U+01A7  U+01A8                  U+01A9  U+0283                  U+01AC  U+01AD                  U+01AE  U+0288                  U+01AF  U+01B0                  U+01B1  U+028A                  U+01B2  U+028B                  U+01B3  U+01B4                  U+01B5  U+01B6                  U+01B7  U+0292                  U+01B8  U+01B9                  U+01BC  U+01BD                  U+01C4  U+01C6                  U+01C5  U+01C6                  U+01C7  U+01C9                  U+01C8  U+01C9                  U+01CA  U+01CC                  U+01CB  U+01CC                  U+01CD  U+01CE                  U+01CF  U+01D0                  U+01D1  U+01D2                  U+01D3  U+01D4                  U+01D5  U+01D6                  U+01D7  U+01D8                  U+01D9  U+01DA                  U+01DB  U+01DC                  U+01DE  U+01DF                  U+01E0  U+01E1                  U+01E2  U+01E3                  U+01E4  U+01E5                  U+01E6  U+01E7                  U+01E8  U+01E9                  U+01EA  U+01EB                  U+01EC  U+01ED                  U+01EE  U+01EF                  U+01F1  U+01F3                  U+01F2  U+01F3                  U+01F4  U+01F5                  U+01F6  U+0195                  U+01F7  U+01BF                  U+01F8  U+01F9                  U+01FA  U+01FB                  U+01FC  U+01FD                  U+01FE  U+01FF                  U+0200  U+0201                  U+0202  U+0203                  U+0204  U+0205                  U+0206  U+0207                  U+0208  U+0209                  U+020A  U+020B                  U+020C  U+020D                  U+020E  U+020F                  U+0210  U+0211                  U+0212  U+0213                  U+0214  U+0215                  U+0216  U+0217                  U+0218  U+0219                  U+021A  U+021B                  U+021C  U+021D                  U+021E  U+021F                  U+0220  U+019E                  U+0222  U+0223                  U+0224  U+0225                  U+0226  U+0227                  U+0228  U+0229                  U+022A  U+022B                  U+022C  U+022D                  U+022E  U+022F                  U+0230  U+0231                  U+0232  U+0233                  U+023A  U+2C65                  U+023B  U+023C                  U+023D  U+019A                  U+023E  U+2C66                  U+0241  U+0242                  U+0243  U+0180                  U+0244  U+0289                  U+0245  U+028C                  U+0246  U+0247                  U+0248  U+0249                  U+024A  U+024B                  U+024C  U+024D                  U+024E  U+024F                  U+0370  U+0371                  U+0372  U+0373                  U+0376  U+0377                  U+037F  U+03F3                  U+0386  U+03AC                  U+0388  U+03AD                  U+0389  U+03AE                  U+038A  U+03AF                  U+038C  U+03CC                  U+038E  U+03CD                  U+038F  U+03CE                  U+0391  U+03B1                  U+0392  U+03B2                  U+0393  U+03B3                  U+0394  U+03B4                  U+0395  U+03B5                  U+0396  U+03B6                  U+0397  U+03B7                  U+0398  U+03B8                  U+0399  U+03B9                  U+039A  U+03BA                  U+039B  U+03BB                  U+039C  U+03BC                  U+039D  U+03BD                  U+039E  U+03BE                  U+039F  U+03BF                  U+03A0  U+03C0                  U+03A1  U+03C1                  U+03A3  U+03C3                  U+03A4  U+03C4                  U+03A5  U+03C5                  U+03A6  U+03C6                  U+03A7  U+03C7                  U+03A8  U+03C8                  U+03A9  U+03C9                  U+03AA  U+03CA                  U+03AB  U+03CB                  U+03CF  U+03D7                  U+03D8  U+03D9                  U+03DA  U+03DB                  U+03DC  U+03DD                  U+03DE  U+03DF                  U+03E0  U+03E1                  U+03E2  U+03E3                  U+03E4  U+03E5                  U+03E6  U+03E7                  U+03E8  U+03E9                  U+03EA  U+03EB                  U+03EC  U+03ED                  U+03EE  U+03EF                  U+03F4  U+03B8                  U+03F7  U+03F8                  U+03F9  U+03F2                  U+03FA  U+03FB                  U+03FD  U+037B                  U+03FE  U+037C                  U+03FF  U+037D                  U+0400  U+0450                  U+0401  U+0451                  U+0402  U+0452                  U+0403  U+0453                  U+0404  U+0454                  U+0405  U+0455                  U+0406  U+0456                  U+0407  U+0457                  U+0408  U+0458                  U+0409  U+0459                  U+040A  U+045A                  U+040B  U+045B                  U+040C  U+045C                  U+040D  U+045D                  U+040E  U+045E                  U+040F  U+045F                  U+0410  U+0430                  U+0411  U+0431                  U+0412  U+0432                  U+0413  U+0433                  U+0414  U+0434                  U+0415  U+0435                  U+0416  U+0436                  U+0417  U+0437                  U+0418  U+0438                  U+0419  U+0439                  U+041A  U+043A                  U+041B  U+043B                  U+041C  U+043C                  U+041D  U+043D                  U+041E  U+043E                  U+041F  U+043F                  U+0420  U+0440                  U+0421  U+0441                  U+0422  U+0442                  U+0423  U+0443                  U+0424  U+0444                  U+0425  U+0445                  U+0426  U+0446                  U+0427  U+0447                  U+0428  U+0448                  U+0429  U+0449                  U+042A  U+044A                  U+042B  U+044B                  U+042C  U+044C                  U+042D  U+044D                  U+042E  U+044E                  U+042F  U+044F                  U+0460  U+0461                  U+0462  U+0463                  U+0464  U+0465                  U+0466  U+0467                  U+0468  U+0469                  U+046A  U+046B                  U+046C  U+046D                  U+046E  U+046F                  U+0470  U+0471                  U+0472  U+0473                  U+0474  U+0475                  U+0476  U+0477                  U+0478  U+0479                  U+047A  U+047B                  U+047C  U+047D                  U+047E  U+047F                  U+0480  U+0481                  U+048A  U+048B                  U+048C  U+048D                  U+048E  U+048F                  U+0490  U+0491                  U+0492  U+0493                  U+0494  U+0495                  U+0496  U+0497                  U+0498  U+0499                  U+049A  U+049B                  U+049C  U+049D                  U+049E  U+049F                  U+04A0  U+04A1                  U+04A2  U+04A3                  U+04A4  U+04A5                  U+04A6  U+04A7                  U+04A8  U+04A9                  U+04AA  U+04AB                  U+04AC  U+04AD                  U+04AE  U+04AF                  U+04B0  U+04B1                  U+04B2  U+04B3                  U+04B4  U+04B5                  U+04B6  U+04B7                  U+04B8  U+04B9                  U+04BA  U+04BB                  U+04BC  U+04BD                  U+04BE  U+04BF                  U+04C0  U+04CF                  U+04C1  U+04C2                  U+04C3  U+04C4                  U+04C5  U+04C6                  U+04C7  U+04C8                  U+04C9  U+04CA                  U+04CB  U+04CC                  U+04CD  U+04CE                  U+04D0  U+04D1                  U+04D2  U+04D3                  U+04D4  U+04D5                  U+04D6  U+04D7                  U+04D8  U+04D9                  U+04DA  U+04DB                  U+04DC  U+04DD                  U+04DE  U+04DF                  U+04E0  U+04E1                  U+04E2  U+04E3                  U+04E4  U+04E5                  U+04E6  U+04E7                  U+04E8  U+04E9                  U+04EA  U+04EB                  U+04EC  U+04ED                  U+04EE  U+04EF                  U+04F0  U+04F1                  U+04F2  U+04F3                  U+04F4  U+04F5                  U+04F6  U+04F7                  U+04F8  U+04F9                  U+04FA  U+04FB                  U+04FC  U+04FD                  U+04FE  U+04FF                  U+0500  U+0501                  U+0502  U+0503                  U+0504  U+0505                  U+0506  U+0507                  U+0508  U+0509                  U+050A  U+050B                  U+050C  U+050D                  U+050E  U+050F                  U+0510  U+0511                  U+0512  U+0513                  U+0514  U+0515                  U+0516  U+0517                  U+0518  U+0519                  U+051A  U+051B                  U+051C  U+051D                  U+051E  U+051F                  U+0520  U+0521                  U+0522  U+0523                  U+0524  U+0525                  U+0526  U+0527                  U+0528  U+0529                  U+052A  U+052B                  U+052C  U+052D                  U+052E  U+052F                  U+0531  U+0561                  U+0532  U+0562                  U+0533  U+0563                  U+0534  U+0564                  U+0535  U+0565                  U+0536  U+0566                  U+0537  U+0567                  U+0538  U+0568                  U+0539  U+0569                  U+053A  U+056A                  U+053B  U+056B                  U+053C  U+056C                  U+053D  U+056D                  U+053E  U+056E                  U+053F  U+056F                  U+0540  U+0570                  U+0541  U+0571                  U+0542  U+0572                  U+0543  U+0573                  U+0544  U+0574                  U+0545  U+0575                  U+0546  U+0576                  U+0547  U+0577                  U+0548  U+0578                  U+0549  U+0579                  U+054A  U+057A                  U+054B  U+057B                  U+054C  U+057C                  U+054D  U+057D                  U+054E  U+057E                  U+054F  U+057F                  U+0550  U+0580                  U+0551  U+0581                  U+0552  U+0582                  U+0553  U+0583                  U+0554  U+0584                  U+0555  U+0585                  U+0556  U+0586                  U+10A0  U+2D00                  U+10A1  U+2D01                  U+10A2  U+2D02                  U+10A3  U+2D03                  U+10A4  U+2D04                  U+10A5  U+2D05                  U+10A6  U+2D06                  U+10A7  U+2D07                  U+10A8  U+2D08                  U+10A9  U+2D09                  U+10AA  U+2D0A                  U+10AB  U+2D0B                  U+10AC  U+2D0C                  U+10AD  U+2D0D                  U+10AE  U+2D0E                  U+10AF  U+2D0F                  U+10B0  U+2D10                  U+10B1  U+2D11                  U+10B2  U+2D12                  U+10B3  U+2D13                  U+10B4  U+2D14                  U+10B5  U+2D15                  U+10B6  U+2D16                  U+10B7  U+2D17                  U+10B8  U+2D18                  U+10B9  U+2D19                  U+10BA  U+2D1A                  U+10BB  U+2D1B                  U+10BC  U+2D1C                  U+10BD  U+2D1D                  U+10BE  U+2D1E                  U+10BF  U+2D1F                  U+10C0  U+2D20                  U+10C1  U+2D21                  U+10C2  U+2D22                  U+10C3  U+2D23                  U+10C4  U+2D24                  U+10C5  U+2D25                  U+10C7  U+2D27                  U+10CD  U+2D2D                  U+13A0  U+AB70                  U+13A1  U+AB71                  U+13A2  U+AB72                  U+13A3  U+AB73                  U+13A4  U+AB74                  U+13A5  U+AB75                  U+13A6  U+AB76                  U+13A7  U+AB77                  U+13A8  U+AB78                  U+13A9  U+AB79                  U+13AA  U+AB7A                  U+13AB  U+AB7B                  U+13AC  U+AB7C                  U+13AD  U+AB7D                  U+13AE  U+AB7E                  U+13AF  U+AB7F                  U+13B0  U+AB80                  U+13B1  U+AB81                  U+13B2  U+AB82                  U+13B3  U+AB83                  U+13B4  U+AB84                  U+13B5  U+AB85                  U+13B6  U+AB86                  U+13B7  U+AB87                  U+13B8  U+AB88                  U+13B9  U+AB89                  U+13BA  U+AB8A                  U+13BB  U+AB8B                  U+13BC  U+AB8C                  U+13BD  U+AB8D                  U+13BE  U+AB8E                  U+13BF  U+AB8F                  U+13C0  U+AB90                  U+13C1  U+AB91                  U+13C2  U+AB92                  U+13C3  U+AB93                  U+13C4  U+AB94                  U+13C5  U+AB95                  U+13C6  U+AB96                  U+13C7  U+AB97                  U+13C8  U+AB98                  U+13C9  U+AB99                  U+13CA  U+AB9A                  U+13CB  U+AB9B                  U+13CC  U+AB9C                  U+13CD  U+AB9D                  U+13CE  U+AB9E                  U+13CF  U+AB9F                  U+13D0  U+ABA0                  U+13D1  U+ABA1                  U+13D2  U+ABA2                  U+13D3  U+ABA3                  U+13D4  U+ABA4                  U+13D5  U+ABA5                  U+13D6  U+ABA6                  U+13D7  U+ABA7                  U+13D8  U+ABA8                  U+13D9  U+ABA9                  U+13DA  U+ABAA                  U+13DB  U+ABAB                  U+13DC  U+ABAC                  U+13DD  U+ABAD                  U+13DE  U+ABAE                  U+13DF  U+ABAF                  U+13E0  U+ABB0                  U+13E1  U+ABB1                  U+13E2  U+ABB2                  U+13E3  U+ABB3                  U+13E4  U+ABB4                  U+13E5  U+ABB5                  U+13E6  U+ABB6                  U+13E7  U+ABB7                  U+13E8  U+ABB8                  U+13E9  U+ABB9                  U+13EA  U+ABBA                  U+13EB  U+ABBB                  U+13EC  U+ABBC                  U+13ED  U+ABBD                  U+13EE  U+ABBE                  U+13EF  U+ABBF                  U+13F0  U+13F8                  U+13F1  U+13F9                  U+13F2  U+13FA                  U+13F3  U+13FB                  U+13F4  U+13FC                  U+13F5  U+13FD                  U+1C90  U+10D0                  U+1C91  U+10D1                  U+1C92  U+10D2                  U+1C93  U+10D3                  U+1C94  U+10D4                  U+1C95  U+10D5                  U+1C96  U+10D6                  U+1C97  U+10D7                  U+1C98  U+10D8                  U+1C99  U+10D9                  U+1C9A  U+10DA                  U+1C9B  U+10DB                  U+1C9C  U+10DC                  U+1C9D  U+10DD                  U+1C9E  U+10DE                  U+1C9F  U+10DF                  U+1CA0  U+10E0                  U+1CA1  U+10E1                  U+1CA2  U+10E2                  U+1CA3  U+10E3                  U+1CA4  U+10E4                  U+1CA5  U+10E5                  U+1CA6  U+10E6                  U+1CA7  U+10E7                  U+1CA8  U+10E8                  U+1CA9  U+10E9                  U+1CAA  U+10EA                  U+1CAB  U+10EB                  U+1CAC  U+10EC                  U+1CAD  U+10ED                  U+1CAE  U+10EE                  U+1CAF  U+10EF                  U+1CB0  U+10F0                  U+1CB1  U+10F1                  U+1CB2  U+10F2                  U+1CB3  U+10F3                  U+1CB4  U+10F4                  U+1CB5  U+10F5                  U+1CB6  U+10F6                  U+1CB7  U+10F7                  U+1CB8  U+10F8                  U+1CB9  U+10F9                  U+1CBA  U+10FA                  U+1CBD  U+10FD                  U+1CBE  U+10FE                  U+1CBF  U+10FF                  U+1E00  U+1E01                  U+1E02  U+1E03                  U+1E04  U+1E05                  U+1E06  U+1E07                  U+1E08  U+1E09                  U+1E0A  U+1E0B                  U+1E0C  U+1E0D                  U+1E0E  U+1E0F                  U+1E10  U+1E11                  U+1E12  U+1E13                  U+1E14  U+1E15                  U+1E16  U+1E17                  U+1E18  U+1E19                  U+1E1A  U+1E1B                  U+1E1C  U+1E1D                  U+1E1E  U+1E1F                  U+1E20  U+1E21                  U+1E22  U+1E23                  U+1E24  U+1E25                  U+1E26  U+1E27                  U+1E28  U+1E29                  U+1E2A  U+1E2B                  U+1E2C  U+1E2D                  U+1E2E  U+1E2F                  U+1E30  U+1E31                  U+1E32  U+1E33                  U+1E34  U+1E35                  U+1E36  U+1E37                  U+1E38  U+1E39                  U+1E3A  U+1E3B                  U+1E3C  U+1E3D                  U+1E3E  U+1E3F                  U+1E40  U+1E41                  U+1E42  U+1E43                  U+1E44  U+1E45                  U+1E46  U+1E47                  U+1E48  U+1E49                  U+1E4A  U+1E4B                  U+1E4C  U+1E4D                  U+1E4E  U+1E4F                  U+1E50  U+1E51                  U+1E52  U+1E53                  U+1E54  U+1E55                  U+1E56  U+1E57                  U+1E58  U+1E59                  U+1E5A  U+1E5B                  U+1E5C  U+1E5D                  U+1E5E  U+1E5F                  U+1E60  U+1E61                  U+1E62  U+1E63                  U+1E64  U+1E65                  U+1E66  U+1E67                  U+1E68  U+1E69                  U+1E6A  U+1E6B                  U+1E6C  U+1E6D                  U+1E6E  U+1E6F                  U+1E70  U+1E71                  U+1E72  U+1E73                  U+1E74  U+1E75                  U+1E76  U+1E77                  U+1E78  U+1E79                  U+1E7A  U+1E7B                  U+1E7C  U+1E7D                  U+1E7E  U+1E7F                  U+1E80  U+1E81                  U+1E82  U+1E83                  U+1E84  U+1E85                  U+1E86  U+1E87                  U+1E88  U+1E89                  U+1E8A  U+1E8B                  U+1E8C  U+1E8D                  U+1E8E  U+1E8F                  U+1E90  U+1E91                  U+1E92  U+1E93                  U+1E94  U+1E95                  U+1E9E  U+00DF                  U+1EA0  U+1EA1                  U+1EA2  U+1EA3                  U+1EA4  U+1EA5                  U+1EA6  U+1EA7                  U+1EA8  U+1EA9                  U+1EAA  U+1EAB                  U+1EAC  U+1EAD                  U+1EAE  U+1EAF                  U+1EB0  U+1EB1                  U+1EB2  U+1EB3                  U+1EB4  U+1EB5                  U+1EB6  U+1EB7                  U+1EB8  U+1EB9                  U+1EBA  U+1EBB                  U+1EBC  U+1EBD                  U+1EBE  U+1EBF                  U+1EC0  U+1EC1                  U+1EC2  U+1EC3                  U+1EC4  U+1EC5                  U+1EC6  U+1EC7                  U+1EC8  U+1EC9                  U+1ECA  U+1ECB                  U+1ECC  U+1ECD                  U+1ECE  U+1ECF                  U+1ED0  U+1ED1                  U+1ED2  U+1ED3                  U+1ED4  U+1ED5                  U+1ED6  U+1ED7                  U+1ED8  U+1ED9                  U+1EDA  U+1EDB                  U+1EDC  U+1EDD                  U+1EDE  U+1EDF                  U+1EE0  U+1EE1                  U+1EE2  U+1EE3                  U+1EE4  U+1EE5                  U+1EE6  U+1EE7                  U+1EE8  U+1EE9                  U+1EEA  U+1EEB                  U+1EEC  U+1EED                  U+1EEE  U+1EEF                  U+1EF0  U+1EF1                  U+1EF2  U+1EF3                  U+1EF4  U+1EF5                  U+1EF6  U+1EF7                  U+1EF8  U+1EF9                  U+1EFA  U+1EFB                  U+1EFC  U+1EFD                  U+1EFE  U+1EFF                  U+1F08  U+1F00                  U+1F09  U+1F01                  U+1F0A  U+1F02                  U+1F0B  U+1F03                  U+1F0C  U+1F04                  U+1F0D  U+1F05                  U+1F0E  U+1F06                  U+1F0F  U+1F07                  U+1F18  U+1F10                  U+1F19  U+1F11                  U+1F1A  U+1F12                  U+1F1B  U+1F13                  U+1F1C  U+1F14                  U+1F1D  U+1F15                  U+1F28  U+1F20                  U+1F29  U+1F21                  U+1F2A  U+1F22                  U+1F2B  U+1F23                  U+1F2C  U+1F24                  U+1F2D  U+1F25                  U+1F2E  U+1F26                  U+1F2F  U+1F27                  U+1F38  U+1F30                  U+1F39  U+1F31                  U+1F3A  U+1F32                  U+1F3B  U+1F33                  U+1F3C  U+1F34                  U+1F3D  U+1F35                  U+1F3E  U+1F36                  U+1F3F  U+1F37                  U+1F48  U+1F40                  U+1F49  U+1F41                  U+1F4A  U+1F42                  U+1F4B  U+1F43                  U+1F4C  U+1F44                  U+1F4D  U+1F45                  U+1F59  U+1F51                  U+1F5B  U+1F53                  U+1F5D  U+1F55                  U+1F5F  U+1F57                  U+1F68  U+1F60                  U+1F69  U+1F61                  U+1F6A  U+1F62                  U+1F6B  U+1F63                  U+1F6C  U+1F64                  U+1F6D  U+1F65                  U+1F6E  U+1F66                  U+1F6F  U+1F67                  U+1F88  U+1F80                  U+1F89  U+1F81                  U+1F8A  U+1F82                  U+1F8B  U+1F83                  U+1F8C  U+1F84                  U+1F8D  U+1F85                  U+1F8E  U+1F86                  U+1F8F  U+1F87                  U+1F98  U+1F90                  U+1F99  U+1F91                  U+1F9A  U+1F92                  U+1F9B  U+1F93                  U+1F9C  U+1F94                  U+1F9D  U+1F95                  U+1F9E  U+1F96                  U+1F9F  U+1F97                  U+1FA8  U+1FA0                  U+1FA9  U+1FA1                  U+1FAA  U+1FA2                  U+1FAB  U+1FA3                  U+1FAC  U+1FA4                  U+1FAD  U+1FA5                  U+1FAE  U+1FA6                  U+1FAF  U+1FA7                  U+1FB8  U+1FB0                  U+1FB9  U+1FB1                  U+1FBA  U+1F70                  U+1FBB  U+1F71                  U+1FBC  U+1FB3                  U+1FC8  U+1F72                  U+1FC9  U+1F73                  U+1FCA  U+1F74                  U+1FCB  U+1F75                  U+1FCC  U+1FC3                  U+1FD8  U+1FD0                  U+1FD9  U+1FD1                  U+1FDA  U+1F76                  U+1FDB  U+1F77                  U+1FE8  U+1FE0                  U+1FE9  U+1FE1                  U+1FEA  U+1F7A                  U+1FEB  U+1F7B                  U+1FEC  U+1FE5                  U+1FF8  U+1F78                  U+1FF9  U+1F79                  U+1FFA  U+1F7C                  U+1FFB  U+1F7D                  U+1FFC  U+1FF3                  U+2126  U+03C9                  U+212A  k                       U+212B  U+00E5                  U+2132  U+214E                  U+2160  U+2170                  U+2161  U+2171                  U+2162  U+2172                  U+2163  U+2173                  U+2164  U+2174                  U+2165  U+2175                  U+2166  U+2176                  U+2167  U+2177                  U+2168  U+2178                  U+2169  U+2179                  U+216A  U+217A                  U+216B  U+217B                  U+216C  U+217C                  U+216D  U+217D                  U+216E  U+217E                  U+216F  U+217F                  U+2183  U+2184                  U+24B6  U+24D0                  U+24B7  U+24D1                  U+24B8  U+24D2                  U+24B9  U+24D3                  U+24BA  U+24D4                  U+24BB  U+24D5                  U+24BC  U+24D6                  U+24BD  U+24D7                  U+24BE  U+24D8                  U+24BF  U+24D9                  U+24C0  U+24DA                  U+24C1  U+24DB                  U+24C2  U+24DC                  U+24C3  U+24DD                  U+24C4  U+24DE                  U+24C5  U+24DF                  U+24C6  U+24E0                  U+24C7  U+24E1                  U+24C8  U+24E2                  U+24C9  U+24E3                  U+24CA  U+24E4                  U+24CB  U+24E5                  U+24CC  U+24E6                  U+24CD  U+24E7                  U+24CE  U+24E8                  U+24CF  U+24E9                  U+2C00  U+2C30                  U+2C01  U+2C31                  U+2C02  U+2C32                  U+2C03  U+2C33                  U+2C04  U+2C34                  U+2C05  U+2C35                  U+2C06  U+2C36                  U+2C07  U+2C37                  U+2C08  U+2C38                  U+2C09  U+2C39                  U+2C0A  U+2C3A                  U+2C0B  U+2C3B                  U+2C0C  U+2C3C                  U+2C0D  U+2C3D                  U+2C0E  U+2C3E                  U+2C0F  U+2C3F                  U+2C10  U+2C40                  U+2C11  U+2C41                  U+2C12  U+2C42                  U+2C13  U+2C43                  U+2C14  U+2C44                  U+2C15  U+2C45                  U+2C16  U+2C46                  U+2C17  U+2C47                  U+2C18  U+2C48                  U+2C19  U+2C49                  U+2C1A  U+2C4A                  U+2C1B  U+2C4B                  U+2C1C  U+2C4C                  U+2C1D  U+2C4D                  U+2C1E  U+2C4E                  U+2C1F  U+2C4F                  U+2C20  U+2C50                  U+2C21  U+2C51                  U+2C22  U+2C52                  U+2C23  U+2C53                  U+2C24  U+2C54                  U+2C25  U+2C55                  U+2C26  U+2C56                  U+2C27  U+2C57                  U+2C28  U+2C58                  U+2C29  U+2C59                  U+2C2A  U+2C5A                  U+2C2B  U+2C5B                  U+2C2C  U+2C5C                  U+2C2D  U+2C5D                  U+2C2E  U+2C5E                  U+2C2F  U+2C5F                  U+2C60  U+2C61                  U+2C62  U+026B                  U+2C63  U+1D7D                  U+2C64  U+027D                  U+2C67  U+2C68                  U+2C69  U+2C6A                  U+2C6B  U+2C6C                  U+2C6D  U+0251                  U+2C6E  U+0271                  U+2C6F  U+0250                  U+2C70  U+0252                  U+2C72  U+2C73                  U+2C75  U+2C76                  U+2C7E  U+023F                  U+2C7F  U+0240                  U+2C80  U+2C81                  U+2C82  U+2C83                  U+2C84  U+2C85                  U+2C86  U+2C87                  U+2C88  U+2C89                  U+2C8A  U+2C8B                  U+2C8C  U+2C8D                  U+2C8E  U+2C8F                  U+2C90  U+2C91                  U+2C92  U+2C93                  U+2C94  U+2C95                  U+2C96  U+2C97                  U+2C98  U+2C99                  U+2C9A  U+2C9B                  U+2C9C  U+2C9D                  U+2C9E  U+2C9F                  U+2CA0  U+2CA1                  U+2CA2  U+2CA3                  U+2CA4  U+2CA5                  U+2CA6  U+2CA7                  U+2CA8  U+2CA9                  U+2CAA  U+2CAB                  U+2CAC  U+2CAD                  U+2CAE  U+2CAF                  U+2CB0  U+2CB1                  U+2CB2  U+2CB3                  U+2CB4  U+2CB5                  U+2CB6  U+2CB7                  U+2CB8  U+2CB9                  U+2CBA  U+2CBB                  U+2CBC  U+2CBD                  U+2CBE  U+2CBF                  U+2CC0  U+2CC1                  U+2CC2  U+2CC3                  U+2CC4  U+2CC5                  U+2CC6  U+2CC7                  U+2CC8  U+2CC9                  U+2CCA  U+2CCB                  U+2CCC  U+2CCD                  U+2CCE  U+2CCF                  U+2CD0  U+2CD1                  U+2CD2  U+2CD3                  U+2CD4  U+2CD5                  U+2CD6  U+2CD7                  U+2CD8  U+2CD9                  U+2CDA  U+2CDB                  U+2CDC  U+2CDD                  U+2CDE  U+2CDF                  U+2CE0  U+2CE1                  U+2CE2  U+2CE3                  U+2CEB  U+2CEC                  U+2CED  U+2CEE                  U+2CF2  U+2CF3                  U+A640  U+A641                  U+A642  U+A643                  U+A644  U+A645                  U+A646  U+A647                  U+A648  U+A649                  U+A64A  U+A64B                  U+A64C  U+A64D                  U+A64E  U+A64F                  U+A650  U+A651                  U+A652  U+A653                  U+A654  U+A655                  U+A656  U+A657                  U+A658  U+A659                  U+A65A  U+A65B                  U+A65C  U+A65D                  U+A65E  U+A65F                  U+A660  U+A661                  U+A662  U+A663                  U+A664  U+A665                  U+A666  U+A667                  U+A668  U+A669                  U+A66A  U+A66B                  U+A66C  U+A66D                  U+A680  U+A681                  U+A682  U+A683                  U+A684  U+A685                  U+A686  U+A687                  U+A688  U+A689                  U+A68A  U+A68B                  U+A68C  U+A68D                  U+A68E  U+A68F                  U+A690  U+A691                  U+A692  U+A693                  U+A694  U+A695                  U+A696  U+A697                  U+A698  U+A699                  U+A69A  U+A69B                  U+A722  U+A723                  U+A724  U+A725                  U+A726  U+A727                  U+A728  U+A729                  U+A72A  U+A72B                  U+A72C  U+A72D                  U+A72E  U+A72F                  U+A732  U+A733                  U+A734  U+A735                  U+A736  U+A737                  U+A738  U+A739                  U+A73A  U+A73B                  U+A73C  U+A73D                  U+A73E  U+A73F                  U+A740  U+A741                  U+A742  U+A743                  U+A744  U+A745                  U+A746  U+A747                  U+A748  U+A749                  U+A74A  U+A74B                  U+A74C  U+A74D                  U+A74E  U+A74F                  U+A750  U+A751                  U+A752  U+A753                  U+A754  U+A755                  U+A756  U+A757                  U+A758  U+A759                  U+A75A  U+A75B                  U+A75C  U+A75D                  U+A75E  U+A75F                  U+A760  U+A761                  U+A762  U+A763                  U+A764  U+A765                  U+A766  U+A767                  U+A768  U+A769                  U+A76A  U+A76B                  U+A76C  U+A76D                  U+A76E  U+A76F                  U+A779  U+A77A                  U+A77B  U+A77C                  U+A77D  U+1D79                  U+A77E  U+A77F                  U+A780  U+A781                  U+A782  U+A783                  U+A784  U+A785                  U+A786  U+A787                  U+A78B  U+A78C                  U+A78D  U+0265                  U+A790  U+A791                  U+A792  U+A793                  U+A796  U+A797                  U+A798  U+A799                  U+A79A  U+A79B                  U+A79C  U+A79D                  U+A79E  U+A79F                  U+A7A0  U+A7A1                  U+A7A2  U+A7A3                  U+A7A4  U+A7A5                  U+A7A6  U+A7A7                  U+A7A8  U+A7A9                  U+A7AA  U+0266                  U+A7AB  U+025C                  U+A7AC  U+0261                  U+A7AD  U+026C                  U+A7AE  U+026A                  U+A7B0  U+029E                  U+A7B1  U+0287                  U+A7B2  U+029D                  U+A7B3  U+AB53                  U+A7B4  U+A7B5                  U+A7B6  U+A7B7                  U+A7B8  U+A7B9                  U+A7BA  U+A7BB                  U+A7BC  U+A7BD                  U+A7BE  U+A7BF                  U+A7C0  U+A7C1                  U+A7C2  U+A7C3                  U+A7C4  U+A794                  U+A7C5  U+0282                  U+A7C6  U+1D8E                  U+A7C7  U+A7C8                  U+A7C9  U+A7CA                  U+A7D0  U+A7D1                  U+A7D6  U+A7D7                  U+A7D8  U+A7D9                  U+A7F5  U+A7F6                  U+FF21  U+FF41                  U+FF22  U+FF42                  U+FF23  U+FF43                  U+FF24  U+FF44                  U+FF25  U+FF45                  U+FF26  U+FF46                  U+FF27  U+FF47                  U+FF28  U+FF48                  U+FF29  U+FF49                  U+FF2A  U+FF4A                  U+FF2B  U+FF4B                  U+FF2C  U+FF4C                  U+FF2D  U+FF4D                  U+FF2E  U+FF4E                  U+FF2F  U+FF4F                  U+FF30  U+FF50                  U+FF31  U+FF51                  U+FF32  U+FF52                  U+FF33  U+FF53                  U+FF34  U+FF54                  U+FF35  U+FF55                  U+FF36  U+FF56                  U+FF37  U+FF57                  U+FF38  U+FF58                  U+FF39  U+FF59                  U+FF3A  U+FF5A                  U+10400 U+10428                 U+10401 U+10429                 U+10402 U+1042A                 U+10403 U+1042B                 U+10404 U+1042C                 U+10405 U+1042D                 U+10406 U+1042E                 U+10407 U+1042F                 U+10408 U+10430                 U+10409 U+10431                 U+1040A U+10432                 U+1040B U+10433                 U+1040C U+10434                 U+1040D U+10435                 U+1040E U+10436                 U+1040F U+10437                 U+10410 U+10438                 U+10411 U+10439                 U+10412 U+1043A                 U+10413 U+1043B                 U+10414 U+1043C                 U+10415 U+1043D                 U+10416 U+1043E                 U+10417 U+1043F                 U+10418 U+10440                 U+10419 U+10441                 U+1041A U+10442                 U+1041B U+10443                 U+1041C U+10444                 U+1041D U+10445                 U+1041E U+10446                 U+1041F U+10447                 U+10420 U+10448                 U+10421 U+10449                 U+10422 U+1044A                 U+10423 U+1044B                 U+10424 U+1044C                 U+10425 U+1044D                 U+10426 U+1044E                 U+10427 U+1044F                 U+104B0 U+104D8                 U+104B1 U+104D9                 U+104B2 U+104DA                 U+104B3 U+104DB                 U+104B4 U+104DC                 U+104B5 U+104DD                 U+104B6 U+104DE                 U+104B7 U+104DF                 U+104B8 U+104E0                 U+104B9 U+104E1                 U+104BA U+104E2                 U+104BB U+104E3                 U+104BC U+104E4                 U+104BD U+104E5                 U+104BE U+104E6                 U+104BF U+104E7                 U+104C0 U+104E8                 U+104C1 U+104E9                 U+104C2 U+104EA                 U+104C3 U+104EB                 U+104C4 U+104EC                 U+104C5 U+104ED                 U+104C6 U+104EE                 U+104C7 U+104EF                 U+104C8 U+104F0                 U+104C9 U+104F1                 U+104CA U+104F2                 U+104CB U+104F3                 U+104CC U+104F4                 U+104CD U+104F5                 U+104CE U+104F6                 U+104CF U+104F7                 U+104D0 U+104F8                 U+104D1 U+104F9                 U+104D2 U+104FA                 U+104D3 U+104FB                 U+10570 U+10597                 U+10571 U+10598                 U+10572 U+10599                 U+10573 U+1059A                 U+10574 U+1059B                 U+10575 U+1059C                 U+10576 U+1059D                 U+10577 U+1059E                 U+10578 U+1059F                 U+10579 U+105A0                 U+1057A U+105A1                 U+1057C U+105A3                 U+1057D U+105A4                 U+1057E U+105A5                 U+1057F U+105A6                 U+10580 U+105A7                 U+10581 U+105A8                 U+10582 U+105A9                 U+10583 U+105AA                 U+10584 U+105AB                 U+10585 U+105AC                 U+10586 U+105AD                 U+10587 U+105AE                 U+10588 U+105AF                 U+10589 U+105B0                 U+1058A U+105B1                 U+1058C U+105B3                 U+1058D U+105B4                 U+1058E U+105B5                 U+1058F U+105B6                 U+10590 U+105B7                 U+10591 U+105B8                 U+10592 U+105B9                 U+10594 U+105BB                 U+10595 U+105BC                 U+10C80 U+10CC0                 U+10C81 U+10CC1                 U+10C82 U+10CC2                 U+10C83 U+10CC3                 U+10C84 U+10CC4                 U+10C85 U+10CC5                 U+10C86 U+10CC6                 U+10C87 U+10CC7                 U+10C88 U+10CC8                 U+10C89 U+10CC9                 U+10C8A U+10CCA                 U+10C8B U+10CCB                 U+10C8C U+10CCC                 U+10C8D U+10CCD                 U+10C8E U+10CCE                 U+10C8F U+10CCF                 U+10C90 U+10CD0                 U+10C91 U+10CD1                 U+10C92 U+10CD2                 U+10C93 U+10CD3                 U+10C94 U+10CD4                 U+10C95 U+10CD5                 U+10C96 U+10CD6                 U+10C97 U+10CD7                 U+10C98 U+10CD8                 U+10C99 U+10CD9                 U+10C9A U+10CDA                 U+10C9B U+10CDB                 U+10C9C U+10CDC                 U+10C9D U+10CDD                 U+10C9E U+10CDE                 U+10C9F U+10CDF                 U+10CA0 U+10CE0                 U+10CA1 U+10CE1                 U+10CA2 U+10CE2                 U+10CA3 U+10CE3                 U+10CA4 U+10CE4                 U+10CA5 U+10CE5                 U+10CA6 U+10CE6                 U+10CA7 U+10CE7                 U+10CA8 U+10CE8                 U+10CA9 U+10CE9                 U+10CAA U+10CEA                 U+10CAB U+10CEB                 U+10CAC U+10CEC                 U+10CAD U+10CED                 U+10CAE U+10CEE                 U+10CAF U+10CEF                 U+10CB0 U+10CF0                 U+10CB1 U+10CF1                 U+10CB2 U+10CF2                 U+118A0 U+118C0                 U+118A1 U+118C1                 U+118A2 U+118C2                 U+118A3 U+118C3                 U+118A4 U+118C4                 U+118A5 U+118C5                 U+118A6 U+118C6                 U+118A7 U+118C7                 U+118A8 U+118C8                 U+118A9 U+118C9                 U+118AA U+118CA                 U+118AB U+118CB                 U+118AC U+118CC                 U+118AD U+118CD                 U+118AE U+118CE                 U+118AF U+118CF                 U+118B0 U+118D0                 U+118B1 U+118D1                 U+118B2 U+118D2                 U+118B3 U+118D3                 U+118B4 U+118D4                 U+118B5 U+118D5                 U+118B6 U+118D6                 U+118B7 U+118D7                 U+118B8 U+118D8                 U+118B9 U+118D9                 U+118BA U+118DA                 U+118BB U+118DB                 U+118BC U+118DC                 U+118BD U+118DD                 U+118BE U+118DE                 U+118BF U+118DF                 U+16E40 U+16E60                 U+16E41 U+16E61                 U+16E42 U+16E62                 U+16E43 U+16E63                 U+16E44 U+16E64                 U+16E45 U+16E65                 U+16E46 U+16E66                 U+16E47 U+16E67                 U+16E48 U+16E68                 U+16E49 U+16E69                 U+16E4A U+16E6A                 U+16E4B U+16E6B                 U+16E4C U+16E6C                 U+16E4D U+16E6D                 U+16E4E U+16E6E                 U+16E4F U+16E6F                 U+16E50 U+16E70                 U+16E51 U+16E71                 U+16E52 U+16E72                 U+16E53 U+16E73                 U+16E54 U+16E74                 U+16E55 U+16E75                 U+16E56 U+16E76                 U+16E57 U+16E77                 U+16E58 U+16E78                 U+16E59 U+16E79                 U+16E5A U+16E7A                 U+16E5B U+16E7B                 U+16E5C U+16E7C                 U+16E5D U+16E7D                 U+16E5E U+16E7E                 U+16E5F U+16E7F                 U+1E900 U+1E922                 U+1E901 U+1E923                 U+1E902 U+1E924                 U+1E903 U+1E925                 U+1E904 U+1E926                 U+1E905 U+1E927                 U+1E906 U+1E928                 U+1E907 U+1E929                 U+1E908 U+1E92A                 U+1E909 U+1E92B                 U+1E90A U+1E92C                 U+1E90B U+1E92D                 U+1E90C U+1E92E                 U+1E90D U+1E92F                 U+1E90E U+1E930                 U+1E90F U+1E931                 U+1E910 U+1E932                 U+1E911 U+1E933                 U+1E912 U+1E934                 U+1E913 U+1E935                 U+1E914 U+1E936                 U+1E915 U+1E937                 U+1E916 U+1E938                 U+1E917 U+1E939                 U+1E918 U+1E93A                 U+1E919 U+1E93B                 U+1E91A U+1E93C                 U+1E91B U+1E93D                 U+1E91C U+1E93E                 U+1E91D U+1E93F                 U+1E91E U+1E940                 U+1E91F U+1E941                 U+1E920 U+1E942                 U+1E921 U+1E943                 "

\* str.upper() of one character, for the characters it changes
UpperData ==
    "a       A                       b       B                       c       C                       d       D                       e       E                       f       F                       g       G                       h       H                       i       I                       j       J                       k       K                       l       L                       m       M                       n       N                       o       O                       p       P                       q       Q                       r       R                       s       S                       t       T                       u       U                       v       V                       w       W                       x       X                       y       Y                       z       Z                       U+00B5  U+039C                  U+00DF  S       S               U+00E0  U+00C0                  U+00E1  U+00C1                  U+00E2  U+00C2                  U+00E3  U+00C3                  U+00E4  U+00C4                  U+00E5  U+00C5                  U+00E6  U+00C6                  U+00E7  U+00C7                  U+00E8  U+00C8                  U+00E9  U+00C9                  U+00EA  U+00CA                  U+00EB  U+00CB                  U+00EC  U+00CC                  U+00ED  U+00CD                  U+00EE  U+00CE                  U+00EF  U+00CF                  U+00F0  U+00D0                  U+00F1  U+00D1                  U+00F2  U+00D2                  U+00F3  U+00D3                  U+00F4  U+00D4                  U+00F5  U+00D5                  U+00F6  U+00D6                  U+00F8  U+00D8                  U+00F9  U+00D9                  U+00FA  U+00DA                  U+00FB  U+00DB                  U+00FC  U+00DC                  U+00FD  U+00DD                  U+00FE  U+00DE                  U+00FF  U+0178                  U+0101  U+0100                  U+0103  U+0102                  U+0105  U+0104                  U+0107  U+0106                  U+0109  U+0108                  U+010B  U+010A                  U+010D  U+010C                  U+010F  U+010E                  U+0111  U+0110                  U+0113  U+0112                  U+0115  U+0114                  U+0117  U+0116                  U+0119  U+0118                  U+011B  U+011A                  U+011D  U+011C                  U+011F  U+011E                  U+0121  U+0120                  U+0123  U+0122                  U+0125  U+0124                  U+0127  U+0126                  U+0129  U+0128                  U+012B  U+012A                  U+012D  U+012C                  U+012F  U+012E                  U+0131  I                       U+0133  U+0132                  U+0135  U+0134                  U+0137  U+0136                  U+013A  U+0139                  U+013C  U+013B                  U+013E  U+013D                  U+0140  U+013F                  U+0142  U+0141                  U+0144  U+0143                  U+0146  U+0145                  U+0148  U+0147                  U+0149  U+02BC  N               U+014B  U+014A                  U+014D  U+014C                  U+014F  U+014E                  U+0151  U+0150                  U+0153  U+0152                  U+0155  U+0154                  U+0157  U+0156                  U+0159  U+0158                  U+015B  U+015A                  U+015D  U+015C                  U+015F  U+015E                  U+0161  U+0160                  U+0163  U+0162                  U+0165  U+0164                  U+0167  U+0166                  U+0169  U+0168                  U+016B  U+016A                  U+016D  U+016C                  U+016F  U+016E                  U+0171  U+0170                  U+0173  U+0172                  U+0175  U+0174                  U+0177  U+0176                  U+017A  U+0179                  U+017C  U+017B                  U+017E  U+017D                  U+017F  S                       U+0180  U+0243                  U+0183  U+0182                  U+0185  U+0184                  U+0188  U+0187                  U+018C  U+018B                  U+0192  U+0191                  U+0195  U+01F6                  U+0199  U+0198                  U+019A  U+023D                  U+019E  U+0220                  U+01A1  U+01A0                  U+01A3  U+01A2                  U+01A5  U+01A4                  U+01A8  U+01A7                  U+01AD  U+01AC                  U+01B0  U+01AF                  U+01B4  U+01B3                  U+01B6  U+01B5                  U+01B9  U+01B8                  U+01BD  U+01BC                  U+01BF  U+01F7                  U+01C5  U+01C4                  U+01C6  U+01C4                  U+01C8  U+01C7                  U+01C9  U+01C7                  U+01CB  U+01CA                  U+01CC  U+01CA                  U+01CE  U+01CD                  U+01D0  U+01CF                  U+01D2  U+01D1                  U+01D4  U+01D3                  U+01D6  U+01D5                  U+01D8  U+01D7                  U+01DA  U+01D9                  U+01DC  U+01DB                  U+01DD  U+018E                  U+01DF  U+01DE                  U+01E1  U+01E0                  U+01E3  U+01E2                  U+01E5  U+01E4                  U+01E7  U+01E6                  U+01E9  U+01E8                  U+01EB  U+01EA                  U+01ED  U+01EC                  U+01EF  U+01EE                  U+01F0  J       U+030C          U+01F2  U+01F1                  U+01F3  U+01F1                  U+01F5  U+01F4                  U+01F9  U+01F8                  U+01FB  U+01FA                  U+01FD  U+01FC                  U+01FF  U+01FE                  U+0201  U+0200                  U+0203  U+0202                  U+0205  U+0204                  U+0207  U+0206                  U+0209  U+0208                  U+020B  U+020A                  U+020D  U+020C                  U+020F  U+020E                  U+0211  U+0210                  U+0213  U+0212                  U+0215  U+0214                  U+0217  U+0216                  U+0219  U+0218                  U+021B  U+021A                  U+021D  U+021C                  U+021F  U+021E                  U+0223  U+0222                  U+0225  U+0224                  U+0227  U+0226                  U+0229  U+0228                  U+022B  U+022A                  U+022D  U+022C                  U+022F  U+022E                  U+0231  U+0230                  U+0233  U+0232                  U+023C  U+023B                  U+023F  U+2C7E                  U+0240  U+2C7F                  U+0242  U+0241                  U+0247  U+0246                  U+0249  U+0248                  U+024B  U+024A                  U+024D  U+024C                  U+024F  U+024E                  U+0250  U+2C6F                  U+0251  U+2C6D                  U+0252  U+2C70                  U+0253  U+0181                  U+0254  U+0186                  U+0256  U+0189                  U+0257  U+018A                  U+0259  U+018F                  U+025B  U+0190                  U+025C  U+A7AB                  U+0260  U+0193                  U+0261  U+A7AC                  U+0263  U+0194                  U+0265  U+A78D                  U+0266  U+A7AA                  U+0268  U+0197                  U+0269  U+0196                  U+026A  U+A7AE                  U+026B  U+2C62                  U+026C  U+A7AD                  U+026F  U+019C                  U+0271  U+2C6E                  U+0272  U+019D                  U+0275  U+019F                  U+027D  U+2C64                  U+0280  U+01A6                  U+0282  U+A7C5                  U+0283  U+01A9                  U+0287  U+A7B1                  U+0288  U+01AE                  U+0289  U+0244                  U+028A  U+01B1                  U+028B  U+01B2                  U+028C  U+0245                  U+0292  U+01B7                  U+029D  U+A7B2                  U+029E  U+A7B0                  U+0345  U+0399                  U+0371  U+0370                  U+0373  U+0372                  U+0377  U+0376                  U+037B  U+03FD                  U+037C  U+03FE                  U+037D  U+03FF                  U+0390  U+0399  U+0308  U+0301  U+03AC  U+0386                  U+03AD  U+0388                  U+03AE  U+0389                  U+03AF  U+038A                  U+03B0  U+03A5  U+0308  U+0301  U+03B1  U+0391                  U+03B2  U+0392                  U+03B3  U+0393                  U+03B4  U+0394                  U+03B5  U+0395                  U+03B6  U+0396                  U+03B7  U+0397                  U+03B8  U+0398                  U+03B9  U+0399                  U+03BA  U+039A                  U+03BB  U+039B                  U+03BC  U+039C                  U+03BD  U+039D                  U+03BE  U+039E                  U+03BF  U+039F                  U+03C0  U+03A0                  U+03C1  U+03A1                  U+03C2  U+03A3                  U+03C3  U+03A3                  U+03C4  U+03A4                  U+03C5  U+03A5                  U+03C6  U+03A6                  U+03C7  U+03A7                  U+03C8  U+03A8                  U+03C9  U+03A9                  U+03CA  U+03AA                  U+03CB  U+03AB                  U+03CC  U+038C                  U+03CD  U+038E                  U+03CE  U+038F                  U+03D0  U+0392                  U+03D1  U+0398                  U+03D5  U+03A6                  U+03D6  U+03A0                  U+03D7  U+03CF                  U+03D9  U+03D8                  U+03DB  U+03DA                  U+03DD  U+03DC                  U+03DF  U+03DE                  U+03E1  U+03E0                  U+03E3  U+03E2                  U+03E5  U+03E4                  U+03E7  U+03E6                  U+03E9  U+03E8                  U+03EB  U+03EA                  U+03ED  U+03EC                  U+03EF  U+03EE                  U+03F0  U+039A                  U+03F1  U+03A1                  U+03F2  U+03F9                  U+03F3  U+037F                  U+03F5  U+0395                  U+03F8  U+03F7                  U+03FB  U+03FA                  U+0430  U+0410                  U+0431  U+0411                  U+0432  U+0412                  U+0433  U+0413                  U+0434  U+0414                  U+0435  U+0415                  U+0436  U+0416                  U+0437  U+0417                  U+0438  U+0418                  U+0439  U+0419                  U+043A  U+041A                  U+043B  U+041B                  U+043C  U+041C                  U+043D  U+041D                  U+043E  U+041E                  U+043F  U+041F                  U+0440  U+0420                  U+0441  U+0421                  U+0442  U+0422                  U+0443  U+0423                  U+0444  U+0424                  U+0445  U+0425                  U+0446  U+0426                  U+0447  U+0427                  U+0448  U+0428                  U+0449  U+0429                  U+044A  U+042A                  U+044B  U+042B                  U+044C  U+042C                  U+044D  U+042D                  U+044E  U+042E                  U+044F  U+042F                  U+0450  U+0400                  U+0451  U+0401                  U+0452  U+0402                  U+0453  U+0403                  U+0454  U+0404                  U+0455  U+0405                  U+0456  U+0406                  U+0457  U+0407                  U+0458  U+0408                  U+0459  U+0409                  U+045A  U+040A                  U+045B  U+040B                  U+045C  U+040C                  U+045D  U+040D                  U+045E  U+040E                  U+045F  U+040F                  U+0461  U+0460                  U+0463  U+0462                  U+0465  U+0464                  U+0467  U+0466                  U+0469  U+0468                  U+046B  U+046A                  U+046D  U+046C                  U+046F  U+046E                  U+0471  U+0470                  U+0473  U+0472                  U+0475  U+0474                  U+0477  U+0476                  U+0479  U+0478                  U+047B  U+047A                  U+047D  U+047C                  U+047F  U+047E                  U+0481  U+0480                  U+048B  U+048A                  U+048D  U+048C                  U+048F  U+048E                  U+0491  U+0490                  U+0493  U+0492                  U+0495  U+0494                  U+0497  U+0496                  U+0499  U+0498                  U+049B  U+049A                  U+049D  U+049C                  U+049F  U+049E                  U+04A1  U+04A0                  U+04A3  U+04A2                  U+04A5  U+04A4                  U+04A7  U+04A6                  U+04A9  U+04A8                  U+04AB  U+04AA                  U+04AD  U+04AC                  U+04AF  U+04AE                  U+04B1  U+04B0                  U+04B3  U+04B2                  U+04B5  U+04B4                  U+04B7  U+04B6                  U+04B9  U+04B8                  U+04BB  U+04BA                  U+04BD  U+04BC                  U+04BF  U+04BE                  U+04C2  U+04C1                  U+04C4  U+04C3                  U+04C6  U+04C5                  U+04C8  U+04C7                  U+04CA  U+04C9                  U+04CC  U+04CB                  U+04CE  U+04CD                  U+04CF  U+04C0                  U+04D1  U+04D0                  U+04D3  U+04D2                  U+04D5  U+04D4                  U+04D7  U+04D6                  U+04D9  U+04D8                  U+04DB  U+04DA                  U+04DD  U+04DC                  U+04DF  U+04DE                  U+04E1  U+04E0                  U+04E3  U+04E2                  U+04E5  U+04E4                  U+04E7  U+04E6                  U+04E9  U+04E8                  U+04EB  U+04EA                  U+04ED  U+04EC                  U+04EF  U+04EE                  U+04F1  U+04F0                  U+04F3  U+04F2                  U+04F5  U+04F4                  U+04F7  U+04F6                  U+04F9  U+04F8                  U+04FB  U+04FA                  U+04FD  U+04FC                  U+04FF  U+04FE                  U+0501  U+0500                  U+0503  U+0502                  U+0505  U+0504                  U+0507  U+0506                  U+0509  U+0508                  U+050B  U+050A                  U+050D  U+050C                  U+050F  U+050E                  U+0511  U+0510                  U+0513  U+0512                  U+0515  U+0514                  U+0517  U+0516                  U+0519  U+0518                  U+051B  U+051A                  U+051D  U+051C                  U+051F  U+051E                  U+0521  U+0520                  U+0523  U+0522                  U+0525  U+0524                  U+0527  U+0526                  U+0529  U+0528                  U+052B  U+052A                  U+052D  U+052C                  U+052F  U+052E                  U+0561  U+0531                  U+0562  U+0532                  U+0563  U+0533                  U+0564  U+0534                  U+0565  U+0535                  U+0566  U+0536                  U+0567  U+0537                  U+0568  U+0538                  U+0569  U+0539                  U+056A  U+053A                  U+056B  U+053B                  U+056C  U+053C                  U+056D  U+053D                  U+056E  U+053E                  U+056F  U+053F                  U+0570  U+0540                  U+0571  U+0541                  U+0572  U+0542                  U+0573  U+0543                  U+0574  U+0544                  U+0575  U+0545                  U+0576  U+0546                  U+0577  U+0547                  U+0578  U+0548                  U+0579  U+0549                  U+057A  U+054A                  U+057B  U+054B                  U+057C  U+054C                  U+057D  U+054D                  U+057E  U+054E                  U+057F  U+054F                  U+0580  U+0550                  U+0581  U+0551                  U+0582  U+0552                  U+0583  U+0553                  U+0584  U+0554                  U+0585  U+0555                  U+0586  U+0556                  U+0587  U+0535  U+0552          U+10D0  U+1C90                  U+10D1  U+1C91                  U+10D2  U+1C92                  U+10D3  U+1C93                  U+10D4  U+1C94                  U+10D5  U+1C95                  U+10D6  U+1C96                  U+10D7  U+1C97                  U+10D8  U+1C98                  U+10D9  U+1C99                  U+10DA  U+1C9A                  U+10DB  U+1C9B                  U+10DC  U+1C9C                  U+10DD  U+1C9D                  U+10DE  U+1C9E                  U+10DF  U+1C9F                  U+10E0  U+1CA0                  U+10E1  U+1CA1                  U+10E2  U+1CA2                  U+10E3  U+1CA3                  U+10E4  U+1CA4                  U+10E5  U+1CA5                  U+10E6  U+1CA6                  U+10E7  U+1CA7                  U+10E8  U+1CA8                  U+10E9  U+1CA9                  U+10EA  U+1CAA                  U+10EB  U+1CAB                  U+10EC  U+1CAC                  U+10ED  U+1CAD                  U+10EE  U+1CAE                  U+10EF  U+1CAF                  U+10F0  U+1CB0                  U+10F1  U+1CB1                  U+10F2  U+1CB2                  U+10F3  U+1CB3                  U+10F4  U+1CB4                  U+10F5  U+1CB5                  U+10F6  U+1CB6                  U+10F7  U+1CB7                  U+10F8  U+1CB8                  U+10F9  U+1CB9                  U+10FA  U+1CBA                  U+10FD  U+1CBD                  U+10FE  U+1CBE                  U+10FF  U+1CBF                  U+13F8  U+13F0                  U+13F9  U+13F1                  U+13FA  U+13F2                  U+13FB  U+13F3                  U+13FC  U+13F4                  U+13FD  U+13F5                  U+1C80  U+0412                  U+1C81  U+0414                  U+1C82  U+041E                  U+1C83  U+0421                  U+1C84  U+0422                  U+1C85  U+0422                  U+1C86  U+042A                  U+1C87  U+0462                  U+1C88  U+A64A                  U+1D79  U+A77D                  U+1D7D  U+2C63                  U+1D8E  U+A7C6                  U+1E01  U+1E00                  U+1E03  U+1E02                  U+1E05  U+1E04                  U+1E07  U+1E06                  U+1E09  U+1E08                  U+1E0B  U+1E0A                  U+1E0D  U+1E0C                  U+1E0F  U+1E0E                  U+1E11  U+1E10                  U+1E13  U+1E12                  U+1E15  U+1E14                  U+1E17  U+1E16                  U+1E19  U+1E18                  U+1E1B  U+1E1A                  U+1E1D  U+1E1C                  U+1E1F  U+1E1E                  U+1E21  U+1E20                  U+1E23  U+1E22                  U+1E25  U+1E24                  U+1E27  U+1E26                  U+1E29  U+1E28                  U+1E2B  U+1E2A                  U+1E2D  U+1E2C                  U+1E2F  U+1E2E                  U+1E31  U+1E30                  U+1E33  U+1E32                  U+1E35  U+1E34                  U+1E37  U+1E36                  U+1E39  U+1E38                  U+1E3B  U+1E3A                  U+1E3D  U+1E3C                  U+1E3F  U+1E3E                  U+1E41  U+1E40                  U+1E43  U+1E42                  U+1E45  U+1E44                  U+1E47  U+1E46                  U+1E49  U+1E48                  U+1E4B  U+1E4A                  U+1E4D  U+1E4C                  U+1E4F  U+1E4E                  U+1E51  U+1E50                  U+1E53  U+1E52                  U+1E55  U+1E54                  U+1E57  U+1E56                  U+1E59  U+1E58                  U+1E5B  U+1E5A                  U+1E5D  U+1E5C                  U+1E5F  U+1E5E                  U+1E61  U+1E60                  U+1E63  U+1E62                  U+1E65  U+1E64                  U+1E67  U+1E66                  U+1E69  U+1E68                  U+1E6B  U+1E6A                  U+1E6D  U+1E6C                  U+1E6F  U+1E6E                  U+1E71  U+1E70                  U+1E73  U+1E72                  U+1E75  U+1E74                  U+1E77  U+1E76                  U+1E79  U+1E78                  U+1E7B  U+1E7A                  U+1E7D  U+1E7C                  U+1E7F  U+1E7E                  U+1E81  U+1E80                  U+1E83  U+1E82                  U+1E85  U+1E84                  U+1E87  U+1E86                  U+1E89  U+1E88                  U+1E8B  U+1E8A                  U+1E8D  U+1E8C                  U+1E8F  U+1E8E                  U+1E91  U+1E90                  U+1E93  U+1E92                  U+1E95  U+1E94                  U+1E96  H       U+0331          U+1E97  T       U+0308          U+1E98  W       U+030A          U+1E99  Y       U+030A          U+1E9A  A       U+02BE          U+1E9B  U+1E60                  U+1EA1  U+1EA0                  U+1EA3  U+1EA2                  U+1EA5  U+1EA4                  U+1EA7  U+1EA6                  U+1EA9  U+1EA8                  U+1EAB  U+1EAA                  U+1EAD  U+1EAC                  U+1EAF  U+1EAE                  U+1EB1  U+1EB0                  U+1EB3  U+1EB2                  U+1EB5  U+1EB4                  U+1EB7  U+1EB6                  U+1EB9  U+1EB8                  U+1EBB  U+1EBA                  U+1EBD  U+1EBC                  U+1EBF  U+1EBE                  U+1EC1  U+1EC0                  U+1EC3  U+1EC2                  U+1EC5  U+1EC4                  U+1EC7  U+1EC6                  U+1EC9  U+1EC8                  U+1ECB  U+1ECA                  U+1ECD  U+1ECC                  U+1ECF  U+1ECE                  U+1ED1  U+1ED0                  U+1ED3  U+1ED2                  U+1ED5  U+1ED4                  U+1ED7  U+1ED6                  U+1ED9  U+1ED8                  U+1EDB  U+1EDA                  U+1EDD  U+1EDC                  U+1EDF  U+1EDE                  U+1EE1  U+1EE0                  U+1EE3  U+1EE2                  U+1EE5  U+1EE4                  U+1EE7  U+1EE6                  U+1EE9  U+1EE8                  U+1EEB  U+1EEA                  U+1EED  U+1EEC                  U+1EEF  U+1EEE                  U+1EF1  U+1EF0                  U+1EF3  U+1EF2                  U+1EF5  U+1EF4                  U+1EF7  U+1EF6                  U+1EF9  U+1EF8                  U+1EFB  U+1EFA                  U+1EFD  U+1EFC                  U+1EFF  U+1EFE                  U+1F00  U+1F08                  U+1F01  U+1F09                  U+1F02  U+1F0A                  U+1F03  U+1F0B                  U+1F04  U+1F0C                  U+1F05  U+1F0D                  U+1F06  U+1F0E                  U+1F07  U+1F0F                  U+1F10  U+1F18                  U+1F11  U+1F19                  U+1F12  U+1F1A                  U+1F13  U+1F1B                  U+1F14  U+1F1C                  U+1F15  U+1F1D                  U+1F20  U+1F28                  U+1F21  U+1F29                  U+1F22  U+1F2A                  U+1F23  U+1F2B                  U+1F24  U+1F2C                  U+1F25  U+1F2D                  U+1F26  U+1F2E                  U+1F27  U+1F2F                  U+1F30  U+1F38                  U+1F31  U+1F39                  U+1F32  U+1F3A                  U+1F33  U+1F3B                  U+1F34  U+1F3C                  U+1F35  U+1F3D                  U+1F36  U+1F3E                  U+1F37  U+1F3F                  U+1F40  U+1F48                  U+1F41  U+1F49                  U+1F42  U+1F4A                  U+1F43  U+1F4B                  U+1F44  U+1F4C                  U+1F45  U+1F4D                  U+1F50  U+03A5  U+0313          U+1F51  U+1F59                  U+1F52  U+03A5  U+0313  U+0300  U+1F53  U+1F5B                  U+1F54  U+03A5  U+0313  U+0301  U+1F55  U+1F5D                  U+1F56  U+03A5  U+0313  U+0342  U+1F57  U+1F5F                  U+1F60  U+1F68                  U+1F61  U+1F69                  U+1F62  U+1F6A                  U+1F63  U+1F6B                  U+1F64  U+1F6C                  U+1F65  U+1F6D                  U+1F66  U+1F6E                  U+1F67  U+1F6F                  U+1F70  U+1FBA                  U+1F71  U+1FBB                  U+1F72  U+1FC8                  U+1F73  U+1FC9                  U+1F74  U+1FCA                  U+1F75  U+1FCB                  U+1F76  U+1FDA                  U+1F77  U+1FDB                  U+1F78  U+1FF8                  U+1F79  U+1FF9                  U+1F7A  U+1FEA                  U+1F7B  U+1FEB                  U+1F7C  U+1FFA                  U+1F7D  U+1FFB                  U+1F80  U+1F08  U+0399          U+1F81  U+1F09  U+0399          U+1F82  U+1F0A  U+0399          U+1F83  U+1F0B  U+0399          U+1F84  U+1F0C  U+0399          U+1F85  U+1F0D  U+0399          U+1F86  U+1F0E  U+0399          U+1F87  U+1F0F  U+0399          U+1F88  U+1F08  U+0399          U+1F89  U+1F09  U+0399          U+1F8A  U+1F0A  U+0399          U+1F8B  U+1F0B  U+0399          U+1F8C  U+1F0C  U+0399          U+1F8D  U+1F0D  U+0399          U+1F8E  U+1F0E  U+0399          U+1F8F  U+1F0F  U+0399          U+1F90  U+1F28  U+0399          U+1F91  U+1F29  U+0399          U+1F92  U+1F2A  U+0399          U+1F93  U+1F2B  U+0399          U+1F94  U+1F2C  U+0399          U+1F95  U+1F2D  U+0399          U+1F96  U+1F2E  U+0399          U+1F97  U+1F2F  U+0399          U+1F98  U+1F28  U+0399          U+1F99  U+1F29  U+0399          U+1F9A  U+1F2A  U+0399          U+1F9B  U+1F2B  U+0399          U+1F9C  U+1F2C  U+0399          U+1F9D  U+1F2D  U+0399          U+1F9E  U+1F2E  U+0399          U+1F9F  U+1F2F  U+0399          U+1FA0  U+1F68  U+0399          U+1FA1  U+1F69  U+0399          U+1FA2  U+1F6A  U+0399          U+1FA3  U+1F6B  U+0399          U+1FA4  U+1F6C  U+0399          U+1FA5  U+1F6D  U+0399          U+1FA6  U+1F6E  U+0399          U+1FA7  U+1F6F  U+0399          U+1FA8  U+1F68  U+0399          U+1FA9  U+1F69  U+0399          U+1FAA  U+1F6A  U+0399          U+1FAB  U+1F6B  U+0399          U+1FAC  U+1F6C  U+0399          U+1FAD  U+1F6D  U+0399          U+1FAE  U+1F6E  U+0399          U+1FAF  U+1F6F  U+0399          U+1FB0  U+1FB8                  U+1FB1  U+1FB9                  U+1FB2  U+1FBA  U+0399          U+1FB3  U+0391  U+0399          U+1FB4  U+0386  U+0399          U+1FB6  U+0391  U+0342          U+1FB7  U+0391  U+0342  U+0399  U+1FBC  U+0391  U+0399          U+1FBE  U+0399                  U+1FC2  U+1FCA  U+0399          U+1FC3  U+0397  U+0399          U+1FC4  U+0389  U+0399          U+1FC6  U+0397  U+0342          U+1FC7  U+0397  U+0342  U+0399  U+1FCC  U+0397  U+0399          U+1FD0  U+1FD8                  U+1FD1  U+1FD9                  U+1FD2  U+0399  U+0308  U+0300  U+1FD3  U+0399  U+0308  U+0301  U+1FD6  U+0399  U+0342          U+1FD7  U+0399  U+0308  U+0342  U+1FE0  U+1FE8                  U+1FE1  U+1FE9                  U+1FE2  U+03A5  U+0308  U+0300  U+1FE3  U+03A5  U+0308  U+0301  U+1FE4  U+03A1  U+0313          U+1FE5  U+1FEC                  U+1FE6  U+03A5  U+0342          U+1FE7  U+03A5  U+0308  U+0342  U+1FF2  U+1FFA  U+0399          U+1FF3  U+03A9  U+0399          U+1FF4  U+038F  U+0399          U+1FF6  U+03A9  U+0342          U+1FF7  U+03A9  U+0342  U+0399  U+1FFC  U+03A9  U+0399          U+214E  U+2132                  U+2170  U+2160                  U+2171  U+2161                  U+2172  U+2162                  U+2173  U+2163                  U+2174  U+2164                  U+2175  U+2165                  U+2176  U+2166                  U+2177  U+2167                  U+2178  U+2168                  U+2179  U+2169                  U+217A  U+216A                  U+217B  U+216B                  U+217C  U+216C                  U+217D  U+216D                  U+217E  U+216E                  U+217F  U+216F                  U+2184  U+2183                  U+24D0  U+24B6                  U+24D1  U+24B7                  U+24D2  U+24B8                  U+24D3  U+24B9                  U+24D4  U+24BA                  U+24D5  U+24BB                  U+24D6  U+24BC                  U+24D7  U+24BD                  U+24D8  U+24BE                  U+24D9  U+24BF                  U+24DA  U+24C0                  U+24DB  U+24C1                  U+24DC  U+24C2                  U+24DD  U+24C3                  U+24DE  U+24C4                  U+24DF  U+24C5                  U+24E0  U+24C6                  U+24E1  U+24C7                  U+24E2  U+24C8                  U+24E3  U+24C9                  U+24E4  U+24CA                  U+24E5  U+24CB                  U+24E6  U+24CC                  U+24E7  U+24CD                  U+24E8  U+24CE                  U+24E9  U+24CF                  U+2C30  U+2C00                  U+2C31  U+2C01                  U+2C32  U+2C02                  U+2C33  U+2C03                  U+2C34  U+2C04                  U+2C35  U+2C05                  U+2C36  U+2C06                  U+2C37  U+2C07                  U+2C38  U+2C08                  U+2C39  U+2C09                  U+2C3A  U+2C0A                  U+2C3B  U+2C0B                  U+2C3C  U+2C0C                  U+2C3D  U+2C0D                  U+2C3E  U+2C0E                  U+2C3F  U+2C0F                  U+2C40  U+2C10                  U+2C41  U+2C11                  U+2C42  U+2C12                  U+2C43  U+2C13                  U+2C44  U+2C14                  U+2C45  U+2C15                  U+2C46  U+2C16                  U+2C47  U+2C17                  U+2C48  U+2C18                  U+2C49  U+2C19                  U+2C4A  U+2C1A                  U+2C4B  U+2C1B                  U+2C4C  U+2C1C                  U+2C4D  U+2C1D                  U+2C4E  U+2C1E                  U+2C4F  U+2C1F                  U+2C50  U+2C20                  U+2C51  U+2C21                  U+2C52  U+2C22                  U+2C53  U+2C23                  U+2C54  U+2C24                  U+2C55  U+2C25                  U+2C56  U+2C26                  U+2C57  U+2C27                  U+2C58  U+2C28                  U+2C59  U+2C29                  U+2C5A  U+2C2A                  U+2C5B  U+2C2B                  U+2C5C  U+2C2C                  U+2C5D  U+2C2D                  U+2C5E  U+2C2E                  U+2C5F  U+2C2F                  U+2C61  U+2C60                  U+2C65  U+023A                  U+2C66  U+023E                  U+2C68  U+2C67                  U+2C6A  U+2C69                  U+2C6C  U+2C6B                  U+2C73  U+2C72                  U+2C76  U+2C75                  U+2C81  U+2C80                  U+2C83  U+2C82                  U+2C85  U+2C84                  U+2C87  U+2C86                  U+2C89  U+2C88                  U+2C8B  U+2C8A                  U+2C8D  U+2C8C                  U+2C8F  U+2C8E                  U+2C91  U+2C90                  U+2C93  U+2C92                  U+2C95  U+2C94                  U+2C97  U+2C96                  U+2C99  U+2C98                  U+2C9B  U+2C9A                  U+2C9D  U+2C9C                  U+2C9F  U+2C9E                  U+2CA1  U+2CA0                  U+2CA3  U+2CA2                  U+2CA5  U+2CA4                  U+2CA7  U+2CA6                  U+2CA9  U+2CA8                  U+2CAB  U+2CAA                  U+2CAD  U+2CAC                  U+2CAF  U+2CAE                  U+2CB1  U+2CB0                  U+2CB3  U+2CB2                  U+2CB5  U+2CB4                  U+2CB7  U+2CB6                  U+2CB9  U+2CB8                  U+2CBB  U+2CBA                  U+2CBD  U+2CBC                  U+2CBF  U+2CBE                  U+2CC1  U+2CC0                  U+2CC3  U+2CC2                  U+2CC5  U+2CC4                  U+2CC7  U+2CC6                  U+2CC9  U+2CC8                  U+2CCB  U+2CCA                  U+2CCD  U+2CCC                  U+2CCF  U+2CCE                  U+2CD1  U+2CD0                  U+2CD3  U+2CD2                  U+2CD5  U+2CD4                  U+2CD7  U+2CD6                  U+2CD9  U+2CD8                  U+2CDB  U+2CDA                  U+2CDD  U+2CDC                  U+2CDF  U+2CDE                  U+2CE1  U+2CE0                  U+2CE3  U+2CE2                  U+2CEC  U+2CEB                  U+2CEE  U+2CED                  U+2CF3  U+2CF2                  U+2D00  U+10A0                  U+2D01  U+10A1                  U+2D02  U+10A2                  U+2D03  U+10A3                  U+2D04  U+10A4                  U+2D05  U+10A5                  U+2D06  U+10A6                  U+2D07  U+10A7                  U+2D08  U+10A8                  U+2D09  U+10A9                  U+2D0A  U+10AA                  U+2D0B  U+10AB                  U+2D0C  U+10AC                  U+2D0D  U+10AD                  U+2D0E  U+10AE                  U+2D0F  U+10AF                  U+2D10  U+10B0                  U+2D11  U+10B1                  U+2D12  U+10B2                  U+2D13  U+10B3                  U+2D14  U+10B4                  U+2D15  U+10B5                  U+2D16  U+10B6                  U+2D17  U+10B7                  U+2D18  U+10B8                  U+2D19  U+10B9                  U+2D1A  U+10BA                  U+2D1B  U+10BB                  U+2D1C  U+10BC                  U+2D1D  U+10BD                  U+2D1E  U+10BE                  U+2D1F  U+10BF                  U+2D20  U+10C0                  U+2D21  U+10C1                  U+2D22  U+10C2                  U+2D23  U+10C3                  U+2D24  U+10C4                  U+2D25  U+10C5                  U+2D27  U+10C7                  U+2D2D  U+10CD                  U+A641  U+A640                  U+A643  U+A642                  U+A645  U+A644                  U+A647  U+A646                  U+A649  U+A648                  U+A64B  U+A64A                  U+A64D  U+A64C                  U+A64F  U+A64E                  U+A651  U+A650                  U+A653  U+A652                  U+A655  U+A654                  U+A657  U+A656                  U+A659  U+A658                  U+A65B  U+A65A                  U+A65D  U+A65C                  U+A65F  U+A65E                  U+A661  U+A660                  U+A663  U+A662                  U+A665  U+A664                  U+A667  U+A666                  U+A669  U+A668                  U+A66B  U+A66A                  U+A66D  U+A66C                  U+A681  U+A680                  U+A683  U+A682                  U+A685  U+A684                  U+A687  U+A686                  U+A689  U+A688                  U+A68B  U+A68A                  U+A68D  U+A68C                  U+A68F  U+A68E                  U+A691  U+A690                  U+A693  U+A692                  U+A695  U+A694                  U+A697  U+A696                  U+A699  U+A698                  U+A69B  U+A69A                  U+A723  U+A722                  U+A725  U+A724                  U+A727  U+A726                  U+A729  U+A728                  U+A72B  U+A72A                  U+A72D  U+A72C                  U+A72F  U+A72E                  U+A733  U+A732                  U+A735  U+A734                  U+A737  U+A736                  U+A739  U+A738                  U+A73B  U+A73A                  U+A73D  U+A73C                  U+A73F  U+A73E                  U+A741  U+A740                  U+A743  U+A742                  U+A745  U+A744                  U+A747  U+A746                  U+A749  U+A748                  U+A74B  U+A74A                  U+A74D  U+A74C                  U+A74F  U+A74E                  U+A751  U+A750                  U+A753  U+A752                  U+A755  U+A754                  U+A757  U+A756                  U+A759  U+A758                  U+A75B  U+A75A                  U+A75D  U+A75C                  U+A75F  U+A75E                  U+A761  U+A760                  U+A763  U+A762                  U+A765  U+A764                  U+A767  U+A766                  U+A769  U+A768                  U+A76B  U+A76A                  U+A76D  U+A76C                  U+A76F  U+A76E                  U+A77A  U+A779                  U+A77C  U+A77B                  U+A77F  U+A77E                  U+A781  U+A780                  U+A783  U+A782                  U+A785  U+A784                  U+A787  U+A786                  U+A78C  U+A78B                  U+A791  U+A790                  U+A793  U+A792                  U+A794  U+A7C4                  U+A797  U+A796                  U+A799  U+A798                  U+A79B  U+A79A                  U+A79D  U+A79C                  U+A79F  U+A79E                  U+A7A1  U+A7A0                  U+A7A3  U+A7A2                  U+A7A5  U+A7A4                  U+A7A7  U+A7A6                  U+A7A9  U+A7A8                  U+A7B5  U+A7B4                  U+A7B7  U+A7B6                  U+A7B9  U+A7B8                  U+A7BB  U+A7BA                  U+A7BD  U+A7BC                  U+A7BF  U+A7BE                  U+A7C1  U+A7C0                  U+A7C3  U+A7C2                  U+A7C8  U+A7C7                  U+A7CA  U+A7C9                  U+A7D1  U+A7D0                  U+A7D7  U+A7D6                  U+A7D9  U+A7D8                  U+A7F6  U+A7F5                  U+AB53  U+A7B3                  U+AB70  U+13A0                  U+AB71  U+13A1                  U+AB72  U+13A2                  U+AB73  U+13A3                  U+AB74  U+13A4                  U+AB75  U+13A5                  U+AB76  U+13A6                  U+AB77  U+13A7                  U+AB78  U+13A8                  U+AB79  U+13A9                  U+AB7A  U+13AA                  U+AB7B  U+13AB                  U+AB7C  U+13AC                  U+AB7D  U+13AD                  U+AB7E  U+13AE                  U+AB7F  U+13AF                  U+AB80  U+13B0                  U+AB81  U+13B1                  U+AB82  U+13B2                  U+AB83  U+13B3                  U+AB84  U+13B4                  U+AB85  U+13B5                  U+AB86  U+13B6                  U+AB87  U+13B7                  U+AB88  U+13B8                  U+AB89  U+13B9                  U+AB8A  U+13BA                  U+AB8B  U+13BB                  U+AB8C  U+13BC                  U+AB8D  U+13BD                  U+AB8E  U+13BE                  U+AB8F  U+13BF                  U+AB90  U+13C0                  U+AB91  U+13C1                  U+AB92  U+13C2                  U+AB93  U+13C3                  U+AB94  U+13C4                  U+AB95  U+13C5                  U+AB96  U+13C6                  U+AB97  U+13C7                  U+AB98  U+13C8                  U+AB99  U+13C9                  U+AB9A  U+13CA                  U+AB9B  U+13CB                  U+AB9C  U+13CC                  U+AB9D  U+13CD                  U+AB9E  U+13CE                  U+AB9F  U+13CF                  U+ABA0  U+13D0                  U+ABA1  U+13D1                  U+ABA2  U+13D2                  U+ABA3  U+13D3                  U+ABA4  U+13D4                  U+ABA5  U+13D5                  U+ABA6  U+13D6                  U+ABA7  U+13D7                  U+ABA8  U+13D8                  U+ABA9  U+13D9                  U+ABAA  U+13DA                  U+ABAB  U+13DB                  U+ABAC  U+13DC                  U+ABAD  U+13DD                  U+ABAE  U+13DE                  U+ABAF  U+13DF                  U+ABB0  U+13E0                  U+ABB1  U+13E1                  U+ABB2  U+13E2                  U+ABB3  U+13E3                  U+ABB4  U+13E4                  U+ABB5  U+13E5                  U+ABB6  U+13E6                  U+ABB7  U+13E7                  U+ABB8  U+13E8                  U+ABB9  U+13E9                  U+ABBA  U+13EA                  U+ABBB  U+13EB                  U+ABBC  U+13EC                  U+ABBD  U+13ED                  U+ABBE  U+13EE                  U+ABBF  U+13EF                  U+FB00  F       F               U+FB01  F       I               U+FB02  F       L               U+FB03  F       F       I       U+FB04  F       F       L       U+FB05  S       T               U+FB06  S       T               U+FB13  U+0544  U+0546          U+FB14  U+0544  U+0535          U+FB15  U+0544  U+053B          U+FB16  U+054E  U+0546          U+FB17  U+0544  U+053D          U+FF41  U+FF21                  U+FF42  U+FF22                  U+FF43  U+FF23                  U+FF44  U+FF24                  U+FF45  U+FF25                  U+FF46  U+FF26                  U+FF47  U+FF27                  U+FF48  U+FF28                  U+FF49  U+FF29                  U+FF4A  U+FF2A                  U+FF4B  U+FF2B                  U+FF4C  U+FF2C                  U+FF4D  U+FF2D                  U+FF4E  U+FF2E                  U+FF4F  U+FF2F                  U+FF50  U+FF30                  U+FF51  U+FF31                  U+FF52  U+FF32                  U+FF53  U+FF33                  U+FF54  U+FF34                  U+FF55  U+FF35                  U+FF56  U+FF36                  U+FF57  U+FF37                  U+FF58  U+FF38                  U+FF59  U+FF39                  U+FF5A  U+FF3A                  U+10428 U+10400                 U+10429 U+10401                 U+1042A U+10402                 U+1042B U+10403                 U+1042C U+10404                 U+1042D U+10405                 U+1042E U+10406                 U+1042F U+10407                 U+10430 U+10408                 U+10431 U+10409                 U+10432 U+1040A                 U+10433 U+1040B                 U+10434 U+1040C                 U+10435 U+1040D                 U+10436 U+1040E                 U+10437 U+1040F                 U+10438 U+10410                 U+10439 U+10411                 U+1043A U+10412                 U+1043B U+10413                 U+1043C U+10414                 U+1043D U+10415                 U+1043E U+10416                 U+1043F U+10417                 U+10440 U+10418                 U+10441 U+10419                 U+10442 U+1041A                 U+10443 U+1041B                 U+10444 U+1041C                 U+10445 U+1041D                 U+10446 U+1041E                 U+10447 U+1041F                 U+10448 U+10420                 U+10449 U+10421                 U+1044A U+10422                 U+1044B U+10423                 U+1044C U+10424                 U+1044D U+10425                 U+1044E U+10426                 U+1044F U+10427                 U+104D8 U+104B0                 U+104D9 U+104B1                 U+104DA U+104B2                 U+104DB U+104B3                 U+104DC U+104B4                 U+104DD U+104B5                 U+104DE U+104B6                 U+104DF U+104B7                 U+104E0 U+104B8                 U+104E1 U+104B9                 U+104E2 U+104BA                 U+104E3 U+104BB                 U+104E4 U+104BC                 U+104E5 U+104BD                 U+104E6 U+104BE                 U+104E7 U+104BF                 U+104E8 U+104C0                 U+104E9 U+104C1                 U+104EA U+104C2                 U+104EB U+104C3                 U+104EC U+104C4                 U+104ED U+104C5                 U+104EE U+104C6                 U+104EF U+104C7                 U+104F0 U+104C8                 U+104F1 U+104C9                 U+104F2 U+104CA                 U+104F3 U+104CB                 U+104F4 U+104CC                 U+104F5 U+104CD                 U+104F6 U+104CE                 U+104F7 U+104CF                 U+104F8 U+104D0                 U+104F9 U+104D1                 U+104FA U+104D2                 U+104FB U+104D3                 U+10597 U+10570                 U+10598 U+10571                 U+10599 U+10572                 U+1059A U+10573                 U+1059B U+10574                 U+1059C U+10575                 U+1059D U+10576                 U+1059E U+10577                 U+1059F U+10578                 U+105A0 U+10579                 U+105A1 U+1057A                 U+105A3 U+1057C                 U+105A4 U+1057D                 U+105A5 U+1057E                 U+105A6 U+1057F                 U+105A7 U+10580                 U+105A8 U+10581                 U+105A9 U+10582                 U+105AA U+10583                 U+105AB U+10584                 U+105AC U+10585                 U+105AD U+10586                 U+105AE U+10587                 U+105AF U+10588                 U+105B0 U+10589                 U+105B1 U+1058A                 U+105B3 U+1058C                 U+105B4 U+1058D                 U+105B5 U+1058E                 U+105B6 U+1058F                 U+105B7 U+10590                 U+105B8 U+10591                 U+105B9 U+10592                 U+105BB U+10594                 U+105BC U+10595                 U+10CC0 U+10C80                 U+10CC1 U+10C81                 U+10CC2 U+10C82                 U+10CC3 U+10C83                 U+10CC4 U+10C84                 U+10CC5 U+10C85                 U+10CC6 U+10C86                 U+10CC7 U+10C87                 U+10CC8 U+10C88                 U+10CC9 U+10C89                 U+10CCA U+10C8A                 U+10CCB U+10C8B                 U+10CCC U+10C8C                 U+10CCD U+10C8D                 U+10CCE U+10C8E                 U+10CCF U+10C8F                 U+10CD0 U+10C90                 U+10CD1 U+10C91                 U+10CD2 U+10C92                 U+10CD3 U+10C93                 U+10CD4 U+10C94                 U+10CD5 U+10C95                 U+10CD6 U+10C96                 U+10CD7 U+10C97                 U+10CD8 U+10C98                 U+10CD9 U+10C99                 U+10CDA U+10C9A                 U+10CDB U+10C9B                 U+10CDC U+10C9C                 U+10CDD U+10C9D                 U+10CDE U+10C9E                 U+10CDF U+10C9F                 U+10CE0 U+10CA0                 U+10CE1 U+10CA1                 U+10CE2 U+10CA2                 U+10CE3 U+10CA3                 U+10CE4 U+10CA4                 U+10CE5 U+10CA5                 U+10CE6 U+10CA6                 U+10CE7 U+10CA7                 U+10CE8 U+10CA8                 U+10CE9 U+10CA9                 U+10CEA U+10CAA                 U+10CEB U+10CAB                 U+10CEC U+10CAC                 U+10CED U+10CAD                 U+10CEE U+10CAE                 U+10CEF U+10CAF                 U+10CF0 U+10CB0                 U+10CF1 U+10CB1                 U+10CF2 U+10CB2                 U+118C0 U+118A0                 U+118C1 U+118A1                 U+118C2 U+118A2                 U+118C3 U+118A3                 U+118C4 U+118A4                 U+118C5 U+118A5                 U+118C6 U+118A6                 U+118C7 U+118A7                 U+118C8 U+118A8                 U+118C9 U+118A9                 U+118CA U+118AA                 U+118CB U+118AB                 U+118CC U+118AC                 U+118CD U+118AD                 U+118CE U+118AE                 U+118CF U+118AF                 U+118D0 U+118B0                 U+118D1 U+118B1                 U+118D2 U+118B2                 U+118D3 U+118B3                 U+118D4 U+118B4                 U+118D5 U+118B5                 U+118D6 U+118B6                 U+118D7 U+118B7                 U+118D8 U+118B8                 U+118D9 U+118B9                 U+118DA U+118BA                 U+118DB U+118BB                 U+118DC U+118BC                 U+118DD U+118BD                 U+118DE U+118BE                 U+118DF U+118BF                 U+16E60 U+16E40                 U+16E61 U+16E41                 U+16E62 U+16E42                 U+16E63 U+16E43                 U+16E64 U+16E44                 U+16E65 U+16E45                 U+16E66 U+16E46                 U+16E67 U+16E47                 U+16E68 U+16E48                 U+16E69 U+16E49                 U+16E6A U+16E4A                 U+16E6B U+16E4B                 U+16E6C U+16E4C                 U+16E6D U+16E4D                 U+16E6E U+16E4E                 U+16E6F U+16E4F                 U+16E70 U+16E50                 U+16E71 U+16E51                 U+16E72 U+16E52                 U+16E73 U+16E53                 U+16E74 U+16E54                 U+16E75 U+16E55                 U+16E76 U+16E56                 U+16E77 U+16E57                 U+16E78 U+16E58                 U+16E79 U+16E59                 U+16E7A U+16E5A                 U+16E7B U+16E5B                 U+16E7C U+16E5C                 U+16E7D U+16E5D                 U+16E7E U+16E5E                 U+16E7F U+16E5F                 U+1E922 U+1E900                 U+1E923 U+1E901                 U+1E924 U+1E902                 U+1E925 U+1E903                 U+1E926 U+1E904                 U+1E927 U+1E905                 U+1E928 U+1E906                 U+1E929 U+1E907                 U+1E92A U+1E908                 U+1E92B U+1E909                 U+1E92C U+1E90A                 U+1E92D U+1E90B                 U+1E92E U+1E90C                 U+1E92F U+1E90D                 U+1E930 U+1E90E                 U+1E931 U+1E90F                 U+1E932 U+1E910                 U+1E933 U+1E911                 U+1E934 U+1E912                 U+1E935 U+1E913                 U+1E936 U+1E914                 U+1E937 U+1E915                 U+1E938 U+1E916                 U+1E939 U+1E917                 U+1E93A U+1E918                 U+1E93B U+1E919                 U+1E93C U+1E91A                 U+1E93D U+1E91B                 U+1E93E U+1E91C                 U+1E93F U+1E91D                 U+1E940 U+1E91E                 U+1E941 U+1E91F                 U+1E942 U+1E920                 U+1E943 U+1E921                 "

\* the title case of one character, where it differs from str.upper()
TitleData ==
    "U+00DF  S       s               U+01C4  U+01C5                  U+01C5  U+01C5                  U+01C6  U+01C5                  U+01C7  U+01C8                  U+01C8  U+01C8                  U+01C9  U+01C8                  U+01CA  U+01CB                  U+01CB  U+01CB                  U+01CC  U+01CB                  U+01F1  U+01F2                  U+01F2  U+01F2                  U+01F3  U+01F2                  U+0587  U+0535  U+0582          U+10D0  U+10D0                  U+10D1  U+10D1                  U+10D2  U+10D2                  U+10D3  U+10D3                  U+10D4  U+10D4                  U+10D5  U+10D5                  U+10D6  U+10D6                  U+10D7  U+10D7                  U+10D8  U+10D8                  U+10D9  U+10D9                  U+10DA  U+10DA                  U+10DB  U+10DB                  U+10DC  U+10DC                  U+10DD  U+10DD                  U+10DE  U+10DE                  U+10DF  U+10DF                  U+10E0  U+10E0                  U+10E1  U+10E1                  U+10E2  U+10E2                  U+10E3  U+10E3                  U+10E4  U+10E4                  U+10E5  U+10E5                  U+10E6  U+10E6                  U+10E7  U+10E7                  U+10E8  U+10E8                  U+10E9  U+10E9                  U+10EA  U+10EA                  U+10EB  U+10EB                  U+10EC  U+10EC                  U+10ED  U+10ED                  U+10EE  U+10EE                  U+10EF  U+10EF                  U+10F0  U+10F0                  U+10F1  U+10F1                  U+10F2  U+10F2                  U+10F3  U+10F3                  U+10F4  U+10F4                  U+10F5  U+10F5                  U+10F6  U+10F6                  U+10F7  U+10F7                  U+10F8  U+10F8                  U+10F9  U+10F9                  U+10FA  U+10FA                  U+10FD  U+10FD                  U+10FE  U+10FE                  U+10FF  U+10FF                  U+1F80  U+1F88                  U+1F81  U+1F89                  U+1F82  U+1F8A                  U+1F83  U+1F8B                  U+1F84  U+1F8C                  U+1F85  U+1F8D                  U+1F86  U+1F8E                  U+1F87  U+1F8F                  U+1F88  U+1F88                  U+1F89  U+1F89                  U+1F8A  U+1F8A                  U+1F8B  U+1F8B                  U+1F8C  U+1F8C                  U+1F8D  U+1F8D                  U+1F8E  U+1F8E                  U+1F8F  U+1F8F                  U+1F90  U+1F98                  U+1F91  U+1F99                  U+1F92  U+1F9A                  U+1F93  U+1F9B                  U+1F94  U+1F9C                  U+1F95  U+1F9D                  U+1F96  U+1F9E                  U+1F97  U+1F9F                  U+1F98  U+1F98                  U+1F99  U+1F99                  U+1F9A  U+1F9A                  U+1F9B  U+1F9B                  U+1F9C  U+1F9C                  U+1F9D  U+1F9D                  U+1F9E  U+1F9E                  U+1F9F  U+1F9F                  U+1FA0  U+1FA8                  U+1FA1  U+1FA9                  U+1FA2  U+1FAA                  U+1FA3  U+1FAB                  U+1FA4  U+1FAC                  U+1FA5  U+1FAD                  U+1FA6  U+1FAE                  U+1FA7  U+1FAF                  U+1FA8  U+1FA8                  U+1FA9  U+1FA9                  U+1FAA  U+1FAA                  U+1FAB  U+1FAB                  U+1FAC  U+1FAC                  U+1FAD  U+1FAD                  U+1FAE  U+1FAE                  U+1FAF  U+1FAF                  U+1FB2  U+1FBA  U+0345          U+1FB3  U+1FBC                  U+1FB4  U+0386  U+0345          U+1FB7  U+0391  U+0342  U+0345  U+1FBC  U+1FBC                  U+1FC2  U+1FCA  U+0345          U+1FC3  U+1FCC                  U+1FC4  U+0389  U+0345          U+1FC7  U+0397  U+0342  U+0345  U+1FCC  U+1FCC                  U+1FF2  U+1FFA  U+0345          U+1FF3  U+1FFC                  U+1FF4  U+038F  U+0345          U+1FF7  U+03A9  U+0342  U+0345  U+1FFC  U+1FFC                  U+FB00  F       f               U+FB01  F       i               U+FB02  F       l               U+FB03  F       f       i       U+FB04  F       f       l       U+FB05  S       t               U+FB06  S       t               U+FB13  U+0544  U+0576          U+FB14  U+0544  U+0565          U+FB15  U+0544  U+056B          U+FB16  U+054E  U+0576          U+FB17  U+0544  U+056D          "

\* re.IGNORECASE: the further characters a lower-cased pattern character
\* matches besides itself
ExtraCasesData ==
    "i       U+0131                  s       U+017F                  U+00B5  U+03BC                  U+0131  i                       U+017F  s                       U+0345  U+03B9  U+1FBE          U+0390  U+1FD3                  U+03B0  U+1FE3                  U+03B2  U+03D0                  U+03B5  U+03F5                  U+03B8  U+03D1                  U+03B9  U+0345  U+1FBE          U+03BA  U+03F0                  U+03BC  U+00B5                  U+03C0  U+03D6                  U+03C1  U+03F1                  U+03C2  U+03C3                  U+03C3  U+03C2                  U+03C6  U+03D5                  U+03D0  U+03B2                  U+03D1  U+03B8                  U+03D5  U+03C6                  U+03D6  U+03C0                  U+03F0  U+03BA                  U+03F1  U+03C1                  U+03F5  U+03B5                  U+0432  U+1C80                  U+0434  U+1C81                  U+043E  U+1C82                  U+0441  U+1C83                  U+0442  U+1C84  U+1C85          U+044A  U+1C86                  U+0463  U+1C87                  U+1C80  U+0432                  U+1C81  U+0434                  U+1C82  U+043E                  U+1C83  U+0441                  U+1C84  U+0442  U+1C85          U+1C85  U+0442  U+1C84          U+1C86  U+044A                  U+1C87  U+0463                  U+1C88  U+A64B                  U+1E61  U+1E9B                  U+1E9B  U+1E61                  U+1FBE  U+0345  U+03B9          U+1FD3  U+0390                  U+1FE3  U+03B0                  U+A64B  U+1C88                  U+FB05  U+FB06                  U+FB06  U+FB05                  "

WordRanges == Ranges(WordData)

CasedRanges == Ranges(CasedData)

CaseIgnorableRanges == Ranges(CaseIgnorableData)

LowerTable == Table(Pairs(LowerData))

UpperTable == Table(Pairs(UpperData))

TitleTable == Table(Pairs(TitleData))

ExtraCases == Table(Pairs(ExtraCasesData))

\* regex \w
IsWordChar(c) == InRanges(c, WordRanges)

IsCased(c) == InRanges(c, CasedRanges)

IsCaseIgnorable(c) == InRanges(c, CaseIgnorableRanges)

\* str.lower() on one character: the characters it gives (two for U+0130)
LowerChar(c) == IF c \in DOMAIN LowerTable THEN LowerTable[c] ELSE <<c>>

\* str.upper() on one character: the characters it gives (up to three, as
\* 'SS' for U+00DF)
UpperChar(c) == IF c \in DOMAIN UpperTable THEN UpperTable[c] ELSE <<c>>

\* the title case of one character, which str.capitalize() gives the first one
TitleChar(c) == IF c \in DOMAIN TitleTable THEN TitleTable[c] ELSE UpperChar(c)

CapitalSigma == "U+03A3"

\* the capital sigma at t[i] ends a word: the nearest character before it that
\* is not case-ignorable is cased, and the nearest one after it is not
FinalSigma(t, i) ==
    LET B == {j \in 1..(i - 1) : ~IsCaseIgnorable(t[j])}
        A == {j \in (i + 1)..Len(t) : ~IsCaseIgnorable(t[j])}
    IN  /\ B /= {}
        /\ IsCased(t[Max(B)])
        /\ (A = {} \/ ~IsCased(t[Min(A)]))

\* what str.lower() gives for the character at t[i]
LowerAt(t, i) ==
    IF t[i] = CapitalSigma
    THEN <<IF FinalSigma(t, i) THEN "U+03C2" ELSE "U+03C3">>
    ELSE LowerChar(t[i])

\* str.lower()
Lower(t) ==
    IF \A i \in DOMAIN t : t[i] /= "U+0130"
    THEN [i \in DOMAIN t |-> LowerAt(t, i)[1]]
    ELSE Concat([i \in DOMAIN t |-> LowerAt(t, i)])

\* str.capitalize(): the first character in title case, the rest lower-cased
Capitalize(t) ==
    Concat([i \in DOMAIN t |-> IF i = 1 THEN TitleChar(t[i]) ELSE LowerAt(t, i)])

\* the one-to-one lower-casing regex matching uses (U+0130 gives 'i')
SimpleLower(c) == IF c = "U+0130" THEN "i" ELSE LowerChar(c)[1]

\* re.IGNORECASE: the text character c matches the pattern character p
IgnoreCaseEq(c, p) ==
    LET lo == SimpleLower(p)
        cl == SimpleLower(c)
    IN  \/ cl = lo
        \/ /\ lo \in DOMAIN ExtraCases
           /\ \E k \in DOMAIN ExtraCases[lo] : ExtraCases[lo][k] = cl

\* t[i:] in Python, with i counted from 1
From(t, i) == SubSeq(t, i, Len(t))

\* p occurs in t at position i
MatchAt(t, p, i) == i >= 1 /\ i + Len(p) - 1 <= Len(t) /\ SubSeq(t, i, i + Len(p) - 1) = p

\* p occurs in t at position i, ignoring case (re.IGNORECASE)
MatchAtNoCase(t, p, i) ==
    /\ i >= 1
    /\ i + Len(p) - 1 <= Len(t)
    /\ \A k \in DOMAIN p : IgnoreCaseEq(t[i + k - 1], p[k])

\* str.find: the first position >= i at which p occurs in t, 0 when none
Find(t, p, i) ==
    LET S == {j \in i..(Len(t) - Len(p) + 1) : MatchAt(t, p, j)}
    IN  IF S = {} THEN 0 ELSE Min(S)

\* the `in` operator on strings
Contains(t, p) == Find(t, p, 1) /= 0

\* str.startswith
StartsWith(t, p) == MatchAt(t, p, 1)

\* str.endswith for a tuple of one-character suffixes
EndsWithAny(t, cs) == Len(t) > 0 /\ t[Len(t)] \in cs

RECURSIVE Replace(_, _, _)
\* str.replace(old, new): non-overlapping occurrences, left to right
Replace(t, old, new) ==
    LET j == Find(t, old, 1)
    IN  IF j = 0 THEN t
        ELSE SubSeq(t, 1, j - 1) \o new \o Replace(From(t, j + Len(old)), old, new)

\* str.lstrip(cs)
LStrip(t, cs) ==
    LET S == {i \in 1..Len(t) : t[i] \notin cs}
    IN  IF S = {} THEN <<>> ELSE From(t, Min(S))

\* str.rstrip(cs)
RStrip(t, cs) ==
    LET S == {i \in 1..Len(t) : t[i] \notin cs}
    IN  IF S = {} THEN <<>> ELSE SubSeq(t, 1, Max(S))

\* str.strip(cs)
Strip(t, cs) == RStrip(LStrip(t, cs), cs)

RECURSIVE Split(_, _)
\* str.split(sep) for a one-character separator: the pieces between separators
Split(t, sep) ==
    LET S == {i \in 1..Len(t) : t[i] = sep}
    IN  IF S = {} THEN <<t>>
        ELSE <<SubSeq(t, 1, Min(S) - 1)>> \o Split(From(t, Min(S) + 1), sep)

RECURSIVE SplitWhitespace(_)
\* str.split() without argument: the maximal runs of non-whitespace
SplitWhitespace(t) ==
    LET u == LStrip(t, Whitespace)
        S == {i \in 1..Len(u) : u[i] \in Whitespace}
    IN  IF u = <<>> THEN <<>>
        ELSE IF S = {} THEN <<u>>
        ELSE <<SubSeq(u, 1, Min(S) - 1)>> \o SplitWhitespace(From(u, Min(S)))

RECURSIVE Join(_, _)
\* sep.join(parts)
Join(sep, parts) ==
    IF parts = <<>> THEN <<>>
    ELSE IF Len(parts) = 1 THEN parts[1]
    ELSE parts[1] \o sep \o Join(sep, Tail(parts))

----------------------------------------------------------------------------
(* RashifalBot.clean_ai_text                                               *)

\* the instructional keywords of the line filter
Keywords ==
    << Chars("must be"), Chars("should be"), Chars("critical"), Chars("mandatory"),
       Chars("required"), Chars("strict"), Chars("rule"), Chars("format:"),
       Chars("example:"), Chars("write for"), Chars("now write"),
       Chars("the horoscope:"), Chars("message:"), Chars("advice:") >>

\* any(keyword in line.lower() for keyword in [...])
HasKeyword(line) == \E k \in DOMAIN Keywords : Contains(Lower(line), Keywords[k])

\* text.replace(em dash, ',').replace(en dash, ',')
ReplaceDashes(text) ==
    [i \in DOMAIN text |-> IF text[i] \in {EmDash, EnDash} THEN "," ELSE text[i]]

KeepLine(line) == ~HasKeyword(line) /\ line /= <<>>

\* cleaned_lines: the stripped lines with no keyword that are not empty
CleanedLines(text) ==
    LET lines    == Split(text, "\n")
        stripped == [i \in DOMAIN lines |-> Strip(lines[i], Whitespace)]
    IN  SelectSeq(stripped, KeepLine)

\* if cleaned_lines: text = cleaned_lines[0]   (otherwise text is left as it is)
FirstCleanLine(text) ==
    LET cleaned_lines == CleanedLines(text)
    IN  IF cleaned_lines /= <<>> THEN cleaned_lines[1] ELSE text

\* alternatives of the first meta pattern, each followed by ':'
MetaColonPrefixes ==
    << Chars("A sentence like"), Chars("Something like"), Chars("Could be"),
       Chars("For example"), Chars("Like this"), Chars("Try this"), Chars("How about") >>

\* alternatives of the second meta pattern, in the order the regex tries them
MetaWordPrefixes ==
    << Chars("So"), Chars("Could be"), Chars("For example"), Chars("Like this"),
       Chars("Something like") >>

\* ^(A sentence like|...|How about):\s*   replaced by ''
SubMetaColon(text) ==
    LET M == {k \in DOMAIN MetaColonPrefixes :
                 MatchAtNoCase(text, MetaColonPrefixes[k] \o <<":">>, 1)}
    IN  IF M = {} THEN text
        ELSE LStrip(From(text, Len(MetaColonPrefixes[Min(M)]) + 2), Whitespace)

\* ^(So|Could be|For example|Like this|Something like)\b[,:]?\s*   replaced by ''
SubMetaWord(text) ==
    LET M == {k \in DOMAIN MetaWordPrefixes :
                 /\ MatchAtNoCase(text, MetaWordPrefixes[k], 1)
                 /\ \/ Len(text) = Len(MetaWordPrefixes[k])
                    \/ ~IsWordChar(text[Len(MetaWordPrefixes[k]) + 1])}
        rest  == From(text, Len(MetaWordPrefixes[Min(M)]) + 1)
        rest2 == IF rest /= <<>> /\ rest[1] \in {",", ":"} THEN Tail(rest) ELSE rest
    IN  IF M = {} THEN text ELSE LStrip(rest2, Whitespace)

\* ^-\s*   replaced by ''
SubMetaDash(text) ==
    IF text /= <<>> /\ text[1] = "-" THEN LStrip(Tail(text), Whitespace) ELSE text

\* for pattern in meta_patterns: text = re.sub(pattern, '', text, flags=re.IGNORECASE)
StripMeta(text) == SubMetaDash(SubMetaWord(SubMetaColon(text)))

RECURSIVE Unquote(_)
\* re.sub(r'"([^"]*)"', r'\1', text): each pair of double quotes is removed
Unquote(text) ==
    LET i == Find(text, <<"\"">>, 1)
        j == IF i = 0 THEN 0 ELSE Find(text, <<"\"">>, i + 1)
    IN  IF j = 0 THEN text
        ELSE SubSeq(text, 1, i - 1) \o SubSeq(text, i + 1, j - 1) \o Unquote(From(text, j + 1))

ai_phrases ==
    << Chars("as an AI"), Chars("I cannot"), Chars("I apologize"), Chars("I understand"),
       Chars("must be a complete sentence"), Chars("ending properly") >>

\* text.replace(phrase, '').replace(phrase.capitalize(), '') for phrase ai_phrases[k]
RemovePhrase(text, k) ==
    Replace(Replace(text, ai_phrases[k], <<>>), Capitalize(ai_phrases[k]), <<>>)

\* for phrase in ai_phrases: text = text.replace(phrase, '').replace(phrase.capitalize(), '')
RemovePhrases(text) ==
    RemovePhrase(RemovePhrase(RemovePhrase(RemovePhrase(RemovePhrase(RemovePhrase(
        text, 1), 2), 3), 4), 5), 6)

\* ' '.join(text.split())
CollapseWhitespace(text) == Join(<<" ">>, SplitWhitespace(text))

\* the characters of text.strip(' .,;:-')
StripSet == {" ", ".", ",", ";", ":", "-"}

\* the passes of clean_ai_text, each applied to the value of the one before
clean_ai_text(text) ==
    Only({ Strip(t6, StripSet) :
           t6 \in { CollapseWhitespace(t5) :
           t5 \in { RemovePhrases(t4) :
           t4 \in { Unquote(t3) :
           t3 \in { StripMeta(t2) :
           t2 \in { FirstCleanLine(t1) :
           t1 \in { ReplaceDashes(t0) : t0 \in {text} } } } } } } })

----------------------------------------------------------------------------
(* RashifalBot.generate_rashifal: the handling of the completion           *)

\* re.match(r'^(A sentence like|...|How about):', raw_text, re.IGNORECASE)
IsMetaCommentary(raw_text) ==
    \E k \in DOMAIN MetaColonPrefixes :
        MatchAtNoCase(raw_text, MetaColonPrefixes[k] \o <<":">>, 1)

\* what r'\s*(.+?)[".]?\s*$' captures when tried right after position i of
\* raw_text (which is stripped): the rest without its leading whitespace and
\* without one trailing '"' or '.'; no match when that rest is empty or
\* holds a newline
MetaGroupAt(raw_text, i) ==
    LET r == LStrip(From(raw_text, i + 1), Whitespace)
    IN  IF Len(r) >= 2 /\ r[Len(r)] \in {"\"", "."} THEN SubSeq(r, 1, Len(r) - 1) ELSE r

MetaMatchesAt(raw_text, i) ==
    LET r == LStrip(From(raw_text, i + 1), Whitespace)
    IN  /\ raw_text[i] \in {":", "\""}
        /\ r /= <<>>
        /\ \A j \in DOMAIN r : r[j] /= "\n"

\* match = re.search(r'[:"]\s*(.+?)[".]?\s*$', raw_text)
\* rashifal_text = match.group(1).strip() if match else None
\* (None is the empty text here: both are falsy and are only tested for truth)
ExtractMeta(raw_text) ==
    LET S == {i \in DOMAIN raw_text : MetaMatchesAt(raw_text, i)}
    IN  IF S = {} THEN <<>> ELSE Strip(MetaGroupAt(raw_text, Min(S)), Whitespace)

TerminalPunctuation == {".", "!", "?"}

\* if rashifal_text and not rashifal_text.endswith(('.', '!', '?')):
\*     rashifal_text = rashifal_text.rstrip(',') + '.'
AddPeriod(rashifal_text) ==
    IF rashifal_text /= <<>> /\ ~EndsWithAny(rashifal_text, TerminalPunctuation)
    THEN RStrip(rashifal_text, {","}) \o <<".">>
    ELSE rashifal_text

\* a character str.encode('utf-8') rejects: a surrogate, U+D800..U+DFFF
IsSurrogate(c) ==
    /\ Len(c) = 6
    /\ SubSeq(c, 1, 4) \in {"U+D8", "U+D9", "U+DA", "U+DB", "U+DC", "U+DD", "U+DE", "U+DF"}

\* a surrogate the handler 'surrogateescape' turns back into the byte it stands
\* for: U+DC80..U+DCFF
IsEscapedByte(c) ==
    /\ Len(c) = 6
    /\ SubSeq(c, 1, 5) \in {"U+DC8", "U+DC9", "U+DCA", "U+DCB", "U+DCC", "U+DCD", "U+DCE", "U+DCF"}

\* print(f"...{text}") returns: sys.stdout, a UTF-8 stream, encodes every
\* character of the text. On a surrogate the handler 'strict' raises
\* UnicodeEncodeError; the handler 'surrogateescape' raises unless the
\* surrogate is one of U+DC80..U+DCFF
Encodable(text) ==
    \A i \in DOMAIN text :
        IsSurrogate(text[i]) => (stdout_errors = "surrogateescape" /\ IsEscapedByte(text[i]))

\* rashifal_text at `if rashifal_text:` before the texts are printed, for
\* message.content = content
NormalizedText(content) ==
    Only({ IF content = <<>> \/ rashifal_text = <<>> THEN <<>>
           ELSE Only({AddPeriod(cleaned) : cleaned \in {clean_ai_text(rashifal_text)}}) :
           rashifal_text \in { IF IsMetaCommentary(raw_text) THEN ExtractMeta(raw_text)
                                ELSE raw_text :
           raw_text \in {Strip(content, Whitespace)} } })

\* print(raw_text) and print(rashifal_text) of generate_rashifal return
PrintsGenerated(content) ==
    \A printed \in {Strip(content, Whitespace), NormalizedText(content)} : Encodable(printed)

\* the text generate_rashifal returns for message.content = content; <<>> stands
\* for the paths that raise into main(): "Failed to generate valid horoscope",
\* and the UnicodeEncodeError of printing the raw or the cleaned text, which the
\* except clause re-raises
GeneratedText(content) ==
    Only({ IF rashifal_text /= <<>> /\ ~PrintsGenerated(content) THEN <<>> ELSE rashifal_text :
           rashifal_text \in {NormalizedText(content)} })

\* the exception generate_rashifal raises into main() when it returns no text
GenerationFailure(c) ==
    IF c.bound /\ c.choices /= <<>> /\ NormalizedText(c.choices[1]) /= <<>>
    THEN "unicode_encode_error"
    ELSE "invalid_horoscope"

\* if completion and completion.choices: ... message.content ...
CompletionText(c) ==
    IF c.bound /\ c.choices /= <<>> THEN GeneratedText(c.choices[1]) ELSE <<>>

----------------------------------------------------------------------------
(* RashifalBot.post_tweet: the text that is submitted                      *)

\* the romanized and English names of self.zodiac_signs
zodiac_signs ==
    << [romanized |-> Chars("Me") \o <<"U+1E63">> \o Chars("a"),            english |-> Chars("Aries")],
       [romanized |-> <<"V", "U+1E5B", "U+1E63">> \o Chars("abha"),         english |-> Chars("Taurus")],
       [romanized |-> Chars("Mithuna"),                                     english |-> Chars("Gemini")],
       [romanized |-> Chars("Karka") \o <<"U+1E6D">> \o Chars("a"),         english |-> Chars("Cancer")],
       [romanized |-> Chars("Si") \o <<"U+1E43">> \o Chars("ha"),           english |-> Chars("Leo")],
       [romanized |-> Chars("Kany") \o <<"U+0101">>,                        english |-> Chars("Virgo")],
       [romanized |-> Chars("Tul") \o <<"U+0101">>,                         english |-> Chars("Libra")],
       [romanized |-> <<"V", "U+1E5B", "U+015B">> \o Chars("chika"),        english |-> Chars("Scorpio")],
       [romanized |-> Chars("Dhanu"),                                       english |-> Chars("Sagittarius")],
       [romanized |-> Chars("Makara"),                                      english |-> Chars("Capricorn")],
       [romanized |-> Chars("Kumbha"),                                      english |-> Chars("Aquarius")],
       [romanized |-> <<"M", "U+012B">> \o Chars("na"),                     english |-> Chars("Pisces")] >>

\* tweet_text of post_tweet(rashifal, sign_info)
TweetText(text, sign_info) ==
    Only({ IF StartsWith(cleaned, sign_info.romanized) THEN cleaned
           ELSE LET capitalized == IF cleaned /= <<>>
                                   THEN UpperChar(cleaned[1]) \o Tail(cleaned)
                                   ELSE cleaned
                IN  sign_info.romanized \o <<",", " ">> \o capitalized :
           cleaned \in {clean_ai_text(text)} })

----------------------------------------------------------------------------
(* The inputs of a run                                                     *)

required_vars ==
    << "HF_TOKEN", "TWITTER_CONSUMER_KEY", "TWITTER_CONSUMER_SECRET",
       "TWITTER_ACCESS_TOKEN", "TWITTER_ACCESS_TOKEN_SECRET", "TWITTER_BEARER_TOKEN" >>

RequiredVarSet == {required_vars[i] : i \in DOMAIN required_vars}

\* sys.stdout.errors of CPython for a UTF-8 stdout the program does not
\* reconfigure: 'strict', or 'surrogateescape' in the C, POSIX and C.UTF-8 locales
StdoutErrors == {"strict", "surrogateescape"}

\* os.environ.get(var) of a variable that is not set
None == <<>>

\* a credential of printable characters
PlainValue == Chars("value-of-credential")

\* a credential that starts with the byte 0x80: os.environ decodes a byte that
\* is not UTF-8 to a surrogate of U+DC80..U+DCFF
EdgeValue == <<"U+DC80">> \o Chars("abcdefghijk")

\* a credential with the byte 0xFF outside its first and last four characters
HiddenValue == Chars("abcd") \o <<"U+DCFF">> \o Chars("efgh")

\* os.environ.get(var): None, '' or a non-empty value
EnvValues(var) ==
    {None, <<<<>>>>, <<PlainValue>>}
    \cup (IF var = "HF_TOKEN" THEN {<<EdgeValue>>, <<HiddenValue>>} ELSE {})

\* the environments of a run
Environments ==
    {e \in [RequiredVarSet -> UNION {EnvValues(var) : var \in RequiredVarSet}] :
        \A var \in RequiredVarSet : e[var] \in EnvValues(var)}

\* masked = f"{value[:4]}...{value[-4:]}" if len(value) > 8 else "***"
masked(value) ==
    IF Len(value) > 8
    THEN SubSeq(value, 1, 4) \o Chars("...") \o SubSeq(value, Len(value) - 3, Len(value))
    ELSE Chars("***")

\* number of words of the long completion
LongContentWords == 20

\* t repeated n times
Repeat(t, n) == [i \in 1..(n * Len(t)) |-> t[((i - 1) % Len(t)) + 1]]

Mesa == zodiac_signs[1].romanized

Tula == zodiac_signs[7].romanized

\* the message contents the generation service returns in the model
Contents ==
    { <<>>,
      Chars("   "),
      Chars("trust yourself today"),
      Chars("As a Leo, you should ") \o <<EmDash>> \o Chars(" trust your gut."),
      Chars("Something like: Libra, you need to let go."),
      Chars("Format: one sentence.\n") \o Mesa \o Chars(", trust yourself."),
      Chars("Format: one sentence."),
      Chars("Format: one sentence.\nRule: be mean."),
      Chars("So So"),
      Chars("So So hello"),
      Chars("I cannot"),
      Chars("I canI apologizenot"),
      Mesa \o Chars(" needs rest."),
      Mesa \o Chars(", you are late again!"),
      <<"\"">> \o Tula \o Chars(", stop texting your ex.\""),
      Chars("- Dhanu, commit to something,"),
      Chars("Something like:"),
      Chars("For example: \"") \o zodiac_signs[6].romanized \o Chars(", relax.\""),
      Chars("Try this: one\ntwo"),
      zodiac_signs[12].romanized \o Chars(", you dream ") \o <<EnDash>> \o Chars(" then nap"),
      Chars("Capricorn's plan is showing, CAPRICORN"),
      Chars("Could be worse, Makara?"),
      Chars("Sorry, ") \o zodiac_signs[5].romanized \o Chars(" \t is   loud."),
      Chars("you ") \o Repeat(Chars("responsibility "), LongContentWords) \o Chars("again."),
      \* long s, no-break space, sharp s:  "ſo ßtay calm"
      <<"U+017F", "o", "U+00A0", "U+00DF">> \o Chars("tay calm"),
      \* e-acute:  "Soé far so good"
      Chars("So") \o <<"U+00E9">> \o Chars(" far so good"),
      \* lone surrogates: no handler of stdout encodes the first, 'surrogateescape'
      \* encodes the second
      <<"x", "U+D800", "y">>,
      Chars("Try this: ") \o <<"U+DC80">> }

\* the values the generation request can return
Completions ==
    {[bound |-> TRUE, choices |-> <<>>]}
    \cup {[bound |-> TRUE, choices |-> <<c>>] : c \in Contents}

\* `completion` before any request has returned
Unbound == [bound |-> FALSE, choices |-> <<>>]

\* the texts of the exceptions the generation request can raise
ErrorTexts ==
    { Chars("Rate limit reached for requests"),
      Chars("Error code: 429 - Too Many Requests"),
      Chars("usage limit exceeded"),
      Chars("first-rate model unavailable"),
      Chars("Connection error."),
      \* capital I with dot above:  "RATE LİMIT exceeded"
      Chars("RATE L") \o <<"U+0130">> \o Chars("MIT exceeded") }

----------------------------------------------------------------------------
(* main() and the operations it calls                                      *)

max_retries == 3

\* missing_vars if the test were `if value is None`
missing_vars_UnsetOnly == {v \in RequiredVarSet : env[v] = None}

\* missing_vars: `if not value` holds for None and for ''
missing_vars == {v \in RequiredVarSet : env[v] = None \/ env[v] = <<<<>>>>}

\* the test without .lower()
IsRateLimit_CaseSensitive(error_text) == Contains(error_text, Chars("rate limit"))

\* if "rate limit" in str(api_error).lower()
IsRateLimit(error_text) == Contains(Lower(error_text), Chars("rate limit"))

Init ==
    /\ env \in Environments
    /\ stdout_errors \in StdoutErrors
    /\ pc = "check_env"
    /\ twitter_api_v1 = FALSE
    /\ use_v1_api = FALSE
    /\ sign = 0
    /\ retry_count = 0
    /\ completion = Unbound
    /\ last_error = <<>>
    /\ rashifal = <<>>
    /\ calls = <<>>
    /\ sleeps = 0
    /\ submitted = <<>>
    /\ published = <<>>
    /\ failure = "none"
    /\ exit_code = <<>>

\* `return code` of main(), with the reason of a failure; exit(main()) makes
\* it the exit status of the process
Return(code, why) ==
    /\ pc' = "done"
    /\ exit_code' = <<code>>
    /\ failure' = why

\* an exception leaves main(): no value is returned, the interpreter prints the
\* traceback and the process ends with exit status 1
Raise(why) ==
    /\ pc' = "done"
    /\ exit_code' = <<1>>
    /\ failure' = why

\* main(): the check of the environment variables. The loop prints the masked
\* value of every variable that is set, outside the try block of main(): a
\* value stdout cannot encode ends the run before the test of missing_vars
CheckEnvironment ==
    /\ pc = "check_env"
    /\ IF \E var \in RequiredVarSet \ missing_vars : ~Encodable(masked(env[var][1]))
       THEN Raise("uncaught_unicode_encode_error")
       ELSE IF missing_vars /= {}
            THEN Return(1, "missing_credentials")
            ELSE pc' = "setup_twitter" /\ UNCHANGED <<exit_code, failure>>
    /\ UNCHANGED <<env, stdout_errors, twitter_api_v1, use_v1_api, sign, retry_count, completion,
                   last_error, rashifal, calls, sleeps, submitted, published>>

\* RashifalBot.__init__ -> setup_twitter: the v2 client and its get_me() probe
ProbeV2 ==
    /\ pc = "setup_twitter"
    /\ calls' = Append(calls, "get_me")
    /\ \E ok \in BOOLEAN : pc' = IF ok THEN "select_sign" ELSE "setup_v1"
    /\ UNCHANGED <<env, stdout_errors, twitter_api_v1, use_v1_api, sign, retry_count, completion,
                   last_error, rashifal, sleeps, submitted, published, failure,
                   exit_code>>

\* setup_twitter: the v1.1 fallback and its verify_credentials() probe; a
\* failure is re-raised through __init__ into main()'s except clause
ProbeV1 ==
    /\ pc = "setup_v1"
    /\ twitter_api_v1' = TRUE
    /\ calls' = Append(calls, "verify_credentials")
    /\ \E ok \in BOOLEAN :
         IF ok
         THEN use_v1_api' = TRUE /\ pc' = "select_sign" /\ UNCHANGED <<exit_code, failure>>
         ELSE UNCHANGED use_v1_api /\ Return(1, "twitter_setup")
    /\ UNCHANGED <<env, stdout_errors, sign, retry_count, completion, last_error, rashifal, sleeps,
                   submitted, published>>

\* main(): sign = random.choice(bot.zodiac_signs); generate_rashifal starts
SelectSign ==
    /\ pc = "select_sign"
    /\ sign' \in DOMAIN zodiac_signs
    /\ retry_count' = 0
    /\ pc' = "request"
    /\ UNCHANGED <<env, stdout_errors, twitter_api_v1, use_v1_api, completion, last_error, rashifal,
                   calls, sleeps, submitted, published, failure, exit_code>>

\* generate_rashifal: one pass of the retry loop whose request succeeds (break)
RequestSucceeds ==
    /\ pc = "request"
    /\ retry_count < max_retries
    /\ calls' = Append(calls, "chat_completions")
    /\ completion' \in Completions
    /\ pc' = "process"
    /\ UNCHANGED <<env, stdout_errors, twitter_api_v1, use_v1_api, sign, retry_count, last_error,
                   rashifal, sleeps, submitted, published, failure, exit_code>>

\* the except clause with `retry_count <= max_retries` as the test for sleeping
AfterError_OffByOne(error_text, count) ==
    IF IsRateLimit(error_text)
    THEN IF count <= max_retries
         THEN pc' = "sleep" /\ UNCHANGED <<exit_code, failure>>
         ELSE Return(1, "rate_limit_exceeded")
    ELSE IF Encodable(error_text)
         THEN Return(1, "api_error")
         ELSE Raise("uncaught_unicode_encode_error")

\* what the except clause of the retry loop does with an error
\* when retry_count has already been incremented to count; an error that is
\* re-raised reaches the except clause of main(), which prints its text: when
\* stdout cannot encode the text, that print raises out of main()
AfterError(error_text, count) ==
    IF IsRateLimit(error_text)
    THEN IF count < max_retries
         THEN pc' = "sleep" /\ UNCHANGED <<exit_code, failure>>
         ELSE Return(1, "rate_limit_exceeded")
    ELSE IF Encodable(error_text)
         THEN Return(1, "api_error")
         ELSE Raise("uncaught_unicode_encode_error")

\* generate_rashifal: one pass of the retry loop whose request raises
RequestFails ==
    /\ pc = "request"
    /\ retry_count < max_retries
    /\ calls' = Append(calls, "chat_completions")
    /\ retry_count' = retry_count + 1
    /\ \E error_text \in ErrorTexts :
         /\ last_error' = error_text
         /\ AfterError(error_text, retry_count + 1)
    /\ UNCHANGED <<env, stdout_errors, twitter_api_v1, use_v1_api, sign, completion, rashifal, sleeps,
                   submitted, published>>

\* generate_rashifal: time.sleep(60), then the loop condition is tested again
Sleep ==
    /\ pc = "sleep"
    /\ sleeps' = sleeps + 1
    /\ pc' = IF retry_count < max_retries THEN "request" ELSE "process"
    /\ UNCHANGED <<env, stdout_errors, twitter_api_v1, use_v1_api, sign, retry_count, completion,
                   last_error, rashifal, calls, submitted, published, failure,
                   exit_code>>

\* generate_rashifal after the loop: the completion is normalized, printed and
\* returned, or an exception is raised into main(): "Failed to generate valid
\* horoscope", or the UnicodeEncodeError of a text that cannot be printed
ProcessCompletion ==
    /\ pc = "process"
    /\ LET text == CompletionText(completion)
       IN  IF text /= <<>>
           THEN rashifal' = text /\ pc' = "post" /\ UNCHANGED <<exit_code, failure>>
           ELSE UNCHANGED rashifal /\ Return(1, GenerationFailure(completion))
    /\ UNCHANGED <<env, stdout_errors, twitter_api_v1, use_v1_api, sign, retry_count, completion,
                   last_error, calls, sleeps, submitted, published>>

\* post_tweet without the v1.1 branch
SubmitCall_PrimaryOnly == "create_tweet"

\* the client post_tweet submits through
SubmitCall == IF use_v1_api /\ twitter_api_v1 THEN "update_status" ELSE "create_tweet"

\* post_tweet whose except clause returned True
PostTweet_ReturnsTrue ==
    /\ pc = "post"
    /\ LET tweet_text == TweetText(rashifal, zodiac_signs[sign])
       IN  /\ calls' = Append(calls, SubmitCall)
           /\ submitted' = Append(submitted, tweet_text)
           /\ \E ok \in BOOLEAN :
                IF ok
                THEN /\ published' = Append(published, tweet_text)
                     /\ Return(0, "none")
                ELSE UNCHANGED published /\ Return(0, "none")
    /\ UNCHANGED <<env, stdout_errors, twitter_api_v1, use_v1_api, sign, retry_count, completion,
                   last_error, rashifal, sleeps>>

\* post_tweet and the end of main(): the text is submitted once; an exception
\* of the platform is caught and post_tweet returns False, and so is the
\* UnicodeEncodeError of printing the text after the platform accepted it
PostTweet ==
    /\ pc = "post"
    /\ LET tweet_text == TweetText(rashifal, zodiac_signs[sign])
       IN  /\ calls' = Append(calls, SubmitCall)
           /\ submitted' = Append(submitted, tweet_text)
           /\ \E ok \in BOOLEAN :
                IF ok
                THEN /\ published' = Append(published, tweet_text)
                     /\ IF Encodable(tweet_text)
                        THEN Return(0, "none")
                        ELSE Return(1, "unicode_encode_error")
                ELSE UNCHANGED published /\ Return(1, "post_failed")
    /\ UNCHANGED <<env, stdout_errors, twitter_api_v1, use_v1_api, sign, retry_count, completion,
                   last_error, rashifal, sleeps>>

Next ==
    \/ CheckEnvironment
    \/ ProbeV2
    \/ ProbeV1
    \/ SelectSign
    \/ RequestSucceeds
    \/ RequestFails
    \/ Sleep
    \/ ProcessCompletion
    \/ PostTweet

Spec == Init /\ [][Next]_vars

----------------------------------------------------------------------------
(* Properties                                                              *)

\* number of occurrences of x in the sequence q
Count(q, x) == Cardinality({i \in DOMAIN q : q[i] = x})

\* number of post submissions attempted so far
Submissions == Count(calls, "create_tweet") + Count(calls, "update_status")

\* number of generation requests issued so far
Requests == Count(calls, "chat_completions")

\* the message content of the completion the generation service returned
Content == completion.choices[1]

HasContent == completion.bound /\ completion.choices /= <<>>

\* "<romanizedName>, " of the selected sign
NamePrefix == zodiac_signs[sign].romanized \o <<",", " ">>

\* C1: at most one post submission is attempted in a run, and main() returns 0
\* exactly when that one submission succeeded; every other finished run returns
\* 1 with nothing published.
C1_ExitCode ==
    /\ Submissions <= 1
    /\ Len(submitted) = Submissions
    /\ Len(published) <= Len(submitted)
    /\ pc = "done" =>
         /\ exit_code \in {<<0>>, <<1>>}
         /\ exit_code = <<0>> <=> (Submissions = 1 /\ published = submitted)
         /\ exit_code = <<1>> => published = <<>>
    /\ pc /= "done" => exit_code = <<>> /\ Submissions = 0

C1_Witness ==
    /\ pc = "done" /\ exit_code = <<0>>
    /\ Len(published) = 1 /\ Submissions = 1

UnprintableCredential ==
    \E v \in RequiredVarSet :
        /\ env[v] \notin {None, <<<<>>>>}
        /\ ~Encodable(masked(env[v][1]))

C3_NamePrefix ==
    \A i \in DOMAIN submitted : StartsWith(submitted[i], NamePrefix)

\* C4: an empty cleaned result is never published: when the text left after the
\* normalization passes of generate_rashifal and post_tweet is empty, nothing is
\* submitted, so no submitted post is the bare name prefix.
C4_NoEmptyPost ==
    \A i \in DOMAIN submitted :
        /\ clean_ai_text(rashifal) /= <<>>
        /\ submitted[i] /= NamePrefix

\* a sign's English name occurs in the text, in any case
MentionsEnglish(text, s) == Contains(Lower(text), Lower(zodiac_signs[s].english))

\* C5: when the raw completion contains a sign's English name (any case, or
\* possessive), the text generate_rashifal returns has no occurrence of that
\* English name and contains the sign's romanized name.
C5_NoEnglishNames ==
    (pc \in {"post", "done"} /\ rashifal /= <<>>) =>
        \A s \in DOMAIN zodiac_signs :
            MentionsEnglish(Content, s) =>
                /\ ~MentionsEnglish(rashifal, s)
                /\ Contains(rashifal, zodiac_signs[s].romanized)

\* C6: the submitted post ends in exactly one terminal punctuation mark out of
\* '.', '!', '?', with no ".." and no ",." at its end.
C6_TerminalPunctuation ==
    \A i \in DOMAIN submitted :
        LET t == submitted[i]
        IN  /\ EndsWithAny(t, TerminalPunctuation)
            /\ Len(t) >= 2 => t[Len(t) - 1] \notin TerminalPunctuation \cup {","}

\* the length limit of a post
MaxTweetLength == 280

\* C7: every submitted text is at most 280 characters long.
C7_LengthLimit ==
    \A i \in DOMAIN submitted : Len(submitted[i]) <= MaxTweetLength

\* C8: clean_ai_text is idempotent: a second pass over its own output changes
\* nothing.
C8_Idempotent ==
    HasContent => clean_ai_text(clean_ai_text(Content)) = clean_ai_text(Content)

\* this step is a generation request that raised
RequestFailed == pc = "request" /\ retry_count' = retry_count + 1

\* the error text holds one of the tokens "rate", "429", "limit", in any case
HasRateToken(error_text) ==
    \E token \in {Chars("rate"), Chars("429"), Chars("limit")} :
        Contains(Lower(error_text), token)

\* the error text holds the phrase "rate limit", in any case
HasRateLimitPhrase(error_text) ==
    LET lowered == Lower(error_text)
    IN  \E i \in DOMAIN lowered : MatchAt(lowered, Chars("rate limit"), i)

\* C9 as stated: a failure whose text holds "rate", "429" or "limit", on a
\* non-final attempt, is followed by a sleep instead of propagating.
C9_AnyToken ==
    [][(RequestFailed /\ retry_count' < max_retries /\ HasRateToken(last_error'))
          => pc' = "sleep"]_vars

\* C9 amended: a failure counts as rate-limited exactly when its text holds the
\* phrase "rate limit" (any case): on a non-final attempt it is followed by a
\* sleep and then another generation request; any other failure, also one whose
\* text holds only "rate", "429" or "limit", propagates at once.
C9_RateLimitPhrase ==
    [][/\ (RequestFailed /\ retry_count' < max_retries /\ HasRateLimitPhrase(last_error'))
            => (pc' = "sleep" /\ exit_code' = <<>>)
       /\ (RequestFailed /\ ~HasRateLimitPhrase(last_error'))
            => (pc' = "done" /\ exit_code' = <<1>> /\ failure' = "api_error")
       /\ pc = "sleep"
            => (pc' = "request" /\ sleeps' = sleeps + 1 /\ retry_count' < max_retries)]_vars

C9_Witness ==
    /\ pc = "sleep"
    /\ last_error = Chars("Rate limit reached for requests")
    /\ Requests = 2

\* the bounds of the retry loop
C10_Bounds ==
    /\ Requests <= 3
    /\ sleeps <= 2
    /\ retry_count <= 3
    /\ pc = "sleep" => (retry_count < 3 /\ sleeps < Requests)
    /\ pc \in {"process", "post", "done"} => sleeps < Requests \/ Requests = 0
    /\ failure = "api_error" =>
         /\ pc = "done" /\ exit_code = <<1>>
         /\ ~HasRateLimitPhrase(last_error)
         /\ calls[Len(calls)] = "chat_completions"
         /\ ~completion.bound
    /\ (retry_count = 3 /\ HasRateLimitPhrase(last_error)) =>
         (pc = "done" /\ failure = "rate_limit_exceeded" /\ exit_code = <<1>>)
    /\ failure = "rate_limit_exceeded" => (Requests = 3 /\ sleeps = 2 /\ ~completion.bound)
    /\ pc \in {"process", "post"} => completion.bound
    /\ (rashifal /= <<>> \/ submitted /= <<>>) => completion.bound

\* the steps of the run that remain at most: the position in main() and, inside
\* the retry loop, the attempts that are left
StepsLeft ==
    CASE pc = "check_env"     -> 13
      [] pc = "setup_twitter" -> 12
      [] pc = "setup_v1"      -> 11
      [] pc = "select_sign"   -> 10
      [] pc = "request"       -> 3 + 2 * (3 - retry_count)
      [] pc = "sleep"         -> 4 + 2 * (3 - retry_count)
      [] pc = "process"       -> 2
      [] pc = "post"          -> 1
      [] pc = "done"          -> 0

\* C10: the retry loop is bounded and terminates: at most 3 generation requests
\* and 2 sleeps, never a sleep after the last attempt; a failure that is not
\* rate-limited propagates after that one request; three rate-limited failures
\* raise "rate limit exceeded"; the completion is processed only after a request
\* succeeded; and every step of the run brings its end nearer, so that no run
\* has more than 13 steps.
C10_RetryLoop ==
    /\ []C10_Bounds
    /\ [][(RequestFailed /\ ~HasRateLimitPhrase(last_error'))
             => (pc' = "done" /\ Requests' = Requests + 1 /\ sleeps' = sleeps)]_vars
    /\ [](StepsLeft >= 0)
    /\ [][StepsLeft' < StepsLeft]_vars

C10_Witness ==
    /\ pc = "done"
    /\ failure = "rate_limit_exceeded"
    /\ Requests = 3 /\ sleeps = 2

\* C11: the post is submitted through the legacy (v1.1) client exactly when the
\* primary client's probe failed and the legacy probe then succeeded, through
\* the primary (v2) client exactly when the primary probe succeeded; when both
\* probes fail the run returns 1 with no generation request and no submission.
C11_ClientFallback ==
    /\ [](Submissions = 1 =>
            /\ calls[Len(calls)] = "update_status"
                 <=> (use_v1_api /\ SubSeq(calls, 1, 2) = <<"get_me", "verify_credentials">>)
            /\ calls[Len(calls)] = "create_tweet"
                 <=> (~use_v1_api /\ calls[1] = "get_me" /\ calls[2] = "chat_completions"))
    /\ [](failure = "twitter_setup" =>
            /\ pc = "done" /\ exit_code = <<1>>
            /\ calls = <<"get_me", "verify_credentials">>
            /\ ~use_v1_api /\ submitted = <<>>)
    /\ [][/\ (pc = "setup_twitter" /\ pc' = "select_sign") => ~use_v1_api'
          /\ (pc = "setup_twitter" /\ pc' /= "select_sign") => pc' = "setup_v1"
          /\ (pc = "setup_v1" /\ pc' = "select_sign") => use_v1_api'
          /\ (pc = "setup_v1" /\ pc' /= "select_sign")
                => (pc' = "done" /\ failure' = "twitter_setup")
          /\ pc \notin {"setup_twitter", "setup_v1"} => use_v1_api' = use_v1_api]_vars

C11_Witness ==
    /\ pc = "done" /\ exit_code = <<0>>
    /\ calls[Len(calls)] = "update_status"
    /\ calls[2] = "verify_credentials"
    /\ Len(published) = 1

\* the text has more than one line
IsMultiLine(text) == \E i \in DOMAIN text : text[i] = "\n"

\* C12: for a multi-line input the output of clean_ai_text holds no newline and
\* is derived only from the first non-empty line without an instructional
\* keyword; when every line holds a keyword the output is empty.
C12_FirstGenuineLine ==
    (HasContent /\ IsMultiLine(Content)) =>
        /\ ~IsMultiLine(clean_ai_text(Content))
        /\ clean_ai_text(Content) =
             IF CleanedLines(Content) = <<>> THEN <<>>
             ELSE clean_ai_text(CleanedLines(Content)[1])

=============================================================================
